---------------------------- MODULE Spec2Model ----------------------------
(***************************************************************************)
(* A model of the supervisory-control layer of DHALSIM-SE: the SCADA       *)
(* coordinator (ics_network/scada_node.py) and the PLC agent               *)
(* (ics_network/plc_node.py), the reader of control rules                  *)
(* (physical/controls_parser.py), the builder of the agent roster          *)
(* (config/runtime_plc_builder.py) and the step loop of the driver         *)
(* (run_simulation.py) over the physical engine (physical/physical_sim.py).*)
(*                                                                         *)
(* Python values are written as follows.  A value that may be None is an   *)
(* option: None is <<>> and a value v is <<v>>.  A dict is a function      *)
(* whose domain is the set of keys present.  Levels and thresholds, floats *)
(* in the program, are integers here: only their order matters to the      *)
(* code, and float() of a number keeps it.                                 *)
(***************************************************************************)
EXTENDS Integers, Sequences, FiniteSets, TLC

VARIABLES
    \* ---- ScadaServer (scada_node.py) ----
    plc_config,      \* self.plc_config["plcs"]: the roster, a sequence of agent configs
    latest_sensors,  \* self.latest_sensors: node id -> level
    pump_commands,   \* self.pump_commands: element id -> command
    valve_commands,  \* self.valve_commands: element id -> command
    overrides,       \* self.overrides: plc id -> forced action
    pc,              \* "idle" | "pending" (a request is in flight) | "replied"
    request,         \* the request handed to handle_plc_request (option)
    reply,           \* the reply returned by handle_plc_request (option)
    cmd,             \* the local cmd of handle_plc_request (option; None when not evaluated)
    \* ---- ScadaServer._select_rule_action, applied on its own ----
    arg_rules,           \* argument rules
    arg_level,           \* argument level
    arg_default_action,  \* argument default_action (option)
    chosen_action,       \* the value returned (option), NotEvaluated before the call
    \* ---- PlcLogic (plc_node.py) ----
    plc_cfg,         \* self.cfg
    last_reply,      \* self.last_reply
    delivered,       \* argument of the latest update_from_scada_reply call (history)
    prev_reply,      \* self.last_reply as it was before that call (history)
    effect,          \* the value returned by the latest get_actuator_effect call
    \* ---- parse_controls_from_inp (controls_parser.py) ----
    inp_exists,      \* path.exists()
    inp_lines,       \* the lines of the document, each stripped and cut into its words
    line_no,         \* the position of the loop over the lines: the next line to read
    in_controls,     \* the local in_controls
    controls,        \* the local controls: the rules appended so far
    rule_index,      \* the local rule_index
    parse_pc,        \* "idle" | "open" | "scan" | "done" | "not_found" | "value_error"
    \* ---- build_runtime_plc_config (runtime_plc_builder.py) ----
    user_plc_config, \* user_plc_config["plcs"]: the entries the user wrote
    rules_by_link,   \* the local rules_by_link, in insertion order: <<link_id, rules>> pairs
    link_pos,        \* the position of the loop over rules_by_link.items()
    sensor_nodes,    \* the local sensor_nodes, a set
    nodes_left,      \* the part of sensor_nodes the loop over it has not yet reached
    runtime_plcs,    \* the local runtime_plcs
    build_pc,        \* "idle" | "start" | "links" | "sensors" | "built"
    build_no,        \* 1 in the first build of the inputs, 2 in the second
    first_plcs,      \* the roster the first build returned (history)
    \* ---- the step loop of main (run_simulation.py) and the engine it drives ----
    loop_pc,         \* "idle" | "top" | "requests" | "effects" | "ended" |
                     \* "type_error" | "runtime_error"
    total_steps,     \* the local total_steps
    step,            \* the loop variable step
    physical_state,  \* the local physical_state: the snapshot of the step (option)
    agent_pos,       \* the position of the inner loop over the agents
    plc_logics,      \* plc_logics: agent id -> last_reply of its PlcLogic
    main_pump_commands,   \* the local pump_commands of main
    main_valve_commands,  \* the local valve_commands of main
    pump_seen,       \* the local pump_seen
    valve_seen,      \* the local valve_seen
    en_open,         \* phys._en is not None
    finished,        \* phys.finished
    current_time_s,  \* phys.current_time_s
    phys_pump_commands,   \* phys.pump_commands
    phys_valve_commands,  \* phys.valve_commands
    events,          \* the calls made so far in the step, in order (history)
    \* ---- the physical engine on its own (physical_sim.py) ----
    en_duration,     \* phys.duration_seconds, in hydraulic steps
    en_time,         \* the clock of the EPANET engine behind phys._en
    en_link_status,  \* the EPANET status of the links: link id -> 0 | 1
    en_call,         \* the last method called on the engine
    en_outcome,      \* what that call returned or raised
    prev_call,       \* the call before it (history)
    prev_outcome,    \* and its outcome (history)
    ever_reset,      \* reset() has been called (history)
    \* ---- one agent under its legacy mode and under the one-rule list ----
    legacy_cmd,      \* the command evaluated for the legacy agent (option of option)
    rulelist_cmd,    \* the command evaluated for the rule-list agent
    \* ---- the requests of one step handled in any order ----
    handled,         \* the ids of the agents whose request has been handled
    round_start      \* the coordinator's state when the round began (history)

scadaVars  == <<plc_config, latest_sensors, pump_commands, valve_commands,
                overrides, pc, request, reply, cmd>>
selectVars == <<arg_rules, arg_level, arg_default_action, chosen_action>>
plcVars    == <<plc_cfg, last_reply, delivered, prev_reply, effect>>
parseVars  == <<inp_exists, inp_lines, line_no, in_controls, controls,
                rule_index, parse_pc>>
buildVars  == <<user_plc_config, rules_by_link, link_pos, sensor_nodes, nodes_left,
                runtime_plcs, build_pc, build_no, first_plcs>>
loopVars   == <<loop_pc, total_steps, step, physical_state, agent_pos, plc_logics,
                main_pump_commands, main_valve_commands, pump_seen, valve_seen,
                en_open, finished, current_time_s, phys_pump_commands,
                phys_valve_commands, events>>
engineVars == <<en_duration, en_time, en_link_status, en_call, en_outcome,
                prev_call, prev_outcome, ever_reset>>
equivVars  == <<legacy_cmd, rulelist_cmd>>
orderVars  == <<handled, round_start>>
extraVars  == <<engineVars, equivVars, orderVars>>
restVars   == <<parseVars, buildVars, loopVars, extraVars>>
vars       == <<scadaVars, selectVars, plcVars, restVars>>

----------------------------------------------------------------------------
(* Bounds of the model. *)

MaxLevel     == 2   \* levels are 0..MaxLevel
MaxThreshold == 2   \* thresholds of drawn rules are 1..MaxThreshold
MaxPriority  == 2   \* priorities of drawn rules are 0..MaxPriority
MaxRules     == 2   \* drawn rule lists hold at most MaxRules rules
MaxLines     == 4   \* drawn documents hold at most MaxLines lines
MaxSteps     == 2   \* total_steps of the step loop is 0..MaxSteps
MaxDuration  == 2   \* the duration of the simulation is 0..MaxDuration hydraulic steps

Levels == 0..MaxLevel

----------------------------------------------------------------------------
(* Python values. *)

None == <<>>
Some(v) == <<v>>

\* {} : the empty dict
EmptyDict == [k \in {} |-> None]

\* d.get(k) for a dict whose values are never None
DictGet(d, k) == IF k \in DOMAIN d THEN Some(d[k]) ELSE None

\* d[k] = v
DictSet(d, k, v) == [x \in (DOMAIN d) \cup {k} |-> IF x = k THEN v ELSE d[x]]

\* d.pop(k, None)
DictPop(d, k) == [x \in (DOMAIN d) \ {k} |-> d[x]]

\* observations.get(k): the values of observations are options, so that a
\* key present with the value None and an absent key both read as None
ObsGet(obs, k) == IF k \in DOMAIN obs THEN obs[k] ELSE None

\* str(s).upper() on the strings that occur
Upper(s) ==
    CASE s = "below"  -> "BELOW"
      [] s = "above"  -> "ABOVE"
      [] s = "open"   -> "OPEN"
      [] s = "closed" -> "CLOSED"
      [] s = "on"     -> "ON"
      [] s = "off"    -> "OFF"
      [] s = "true"   -> "TRUE"
      [] s = "false"  -> "FALSE"
      [] OTHER        -> s

----------------------------------------------------------------------------
(* Agent configurations, as build_runtime_plc_config produces them. *)

Rule(node_id, comparator, threshold, action, priority, idx) ==
    [node_id |-> node_id, comparator |-> comparator, threshold |-> threshold,
     action |-> action, priority |-> priority, rule_index |-> idx]

\* a bug: the group's node is the node of its last rule
RuleListLogicLastNode(rs) ==
    [mode |-> "rule_list", node_id |-> Some(rs[Len(rs)].node_id), rules |-> rs,
     threshold |-> 0]

\* runtime_plc_builder.py 82-86: the group's node is the node of its first rule
RuleListLogic(rs) ==
    [mode |-> "rule_list", node_id |-> Some(rs[1].node_id), rules |-> rs, threshold |-> 0]

LegacyLogic(mode, node_id, threshold) ==
    [mode |-> mode, node_id |-> Some(node_id), rules |-> <<>>, threshold |-> threshold]

ReportLevelLogic(node_id) ==
    [mode |-> "report_level", node_id |-> Some(node_id), rules |-> <<>>, threshold |-> 0]

Plc(id, element_id, role, type, logic) ==
    [id |-> id, element_id |-> element_id, role |-> role, type |-> type, logic |-> logic]

\* LINK P1 OPEN IF NODE T1 BELOW 1 ; LINK P1 CLOSED IF NODE T1 ABOVE 1
PumpRules == << Rule("T1", "BELOW", 1, "OPEN", 0, 0), Rule("T1", "ABOVE", 1, "CLOSED", 0, 1) >>
\* LINK V1 OPEN IF NODE T1 BELOW 2 PRIORITY 1 ; LINK V1 CLOSED IF NODE T1 BELOW 2 PRIORITY 2
ValveRules == << Rule("T1", "BELOW", 2, "OPEN", 1, 2), Rule("T1", "BELOW", 2, "CLOSED", 2, 3) >>
\* LINK L1 CLOSED IF NODE J1 ABOVE 1
LinkRules == << Rule("J1", "ABOVE", 1, "CLOSED", 0, 4) >>

PlcPump     == Plc("PLC_PUMP_1", "P1", "actuator", "pump", RuleListLogic(PumpRules))
PlcValve    == Plc("PLC_V1", "V1", "actuator", "valve", RuleListLogic(ValveRules))
PlcValveOld == Plc("PLC_V1", "V1", "actuator", "valve", LegacyLogic("close_if_above", "T1", 1))
PlcLink     == Plc("PLC_L1", "L1", "actuator", "link", RuleListLogic(LinkRules))
PlcTank     == Plc("PLC_SENSOR_T1", "T1", "sensor", "tank", ReportLevelLogic("T1"))
PlcJunction == Plc("PLC_SENSOR_J1", "J1", "sensor", "junction", ReportLevelLogic("J1"))

\* The rosters the coordinator is constructed with: actuators first, then the
\* synthesized sensors; the second one carries a legacy single-mode valve.
Rosters ==
    { << PlcPump, PlcValve, PlcLink, PlcTank, PlcJunction >>,
      << PlcPump, PlcValveOld, PlcLink, PlcTank, PlcJunction >> }

----------------------------------------------------------------------------
(* ScadaServer: rule evaluation. *)

\* scada_node.py 116-120: the test of one rule against the level
ConditionMet(rule, level) ==
    LET comparator == Upper(rule.comparator)
    IN  IF comparator = "BELOW" THEN level < rule.threshold
        ELSE IF comparator = "ABOVE" THEN level > rule.threshold
        ELSE FALSE

\* scada_node.py 108-123: the list matching of (priority, rule_index, action)
Matching(rules, level) ==
    LET fired == SelectSeq(rules, LAMBDA r : ConditionMet(r, level))
    IN  [i \in 1..Len(fired) |->
            << fired[i].priority, fired[i].rule_index, Upper(fired[i].action) >>]

\* a bug: the key is the rule_index alone
KeyGreaterIndexOnly(a, b) == a[2] > b[2]

\* a bug: the key is the priority alone
KeyGreaterPriorityOnly(a, b) == a[1] > b[1]

\* scada_node.py 129: the order of the keys (x[0], x[1]), Python's order of tuples
KeyGreater(a, b) == a[1] > b[1] \/ (a[1] = b[1] /\ a[2] > b[2])

\* scada_node.py 129: max(matching, key=...): the first of the maximal elements
RECURSIVE MaxFrom(_, _, _)
MaxFrom(matching, i, best) ==
    IF i > Len(matching) THEN best
    ELSE MaxFrom(matching, i + 1,
                 IF KeyGreater(matching[i], best) THEN matching[i] ELSE best)

\* scada_node.py 107-130
SelectRuleAction(rules, level, default_action) ==
    LET matching == Matching(rules, level)
    IN  IF matching = <<>> THEN default_action
        ELSE Some(MaxFrom(matching, 2, matching[1])[3])

\* a bug: only the words OPEN/ON and CLOSED/OFF are recognised
NormalizeStatusWordsOnly(status) ==
    IF status = None THEN None
    ELSE LET s == Upper(status[1])
         IN  IF s \in {"OPEN", "ON"} THEN Some("OPEN")
             ELSE IF s \in {"CLOSED", "OFF"} THEN Some("CLOSED")
             ELSE None

\* scada_node.py 89-98
NormalizeStatus(status) ==
    IF status = None THEN None
    ELSE LET s == Upper(status[1])
         IN  IF s \in {"OPEN", "ON", "1", "TRUE"} THEN Some("OPEN")
             ELSE IF s \in {"CLOSED", "OFF", "0", "FALSE"} THEN Some("CLOSED")
             ELSE None

\* scada_node.py 100-105
LastCommandForElement(pumps, valves, element_id, elem_type) ==
    IF elem_type = "pump" THEN NormalizeStatus(DictGet(pumps, element_id))
    ELSE IF elem_type = "valve" THEN NormalizeStatus(DictGet(valves, element_id))
    ELSE None

\* a or b, for options of non-empty strings
Or(a, b) == IF a # None THEN a ELSE b

\* a bug: the cached level taken before the level of the observation
ResolveLevelCacheFirst(sensors, node_id, observations) ==
    LET cached == IF node_id # None THEN DictGet(sensors, node_id[1]) ELSE None
    IN  IF cached # None THEN cached ELSE ObsGet(observations, "level")

\* scada_node.py 142-145: the level of the observation, else the cached one
ResolveLevel(sensors, node_id, observations) ==
    LET lv == ObsGet(observations, "level")
    IN  IF lv = None /\ node_id # None THEN DictGet(sensors, node_id[1]) ELSE lv

\* a bug: the reported status taken before the last command
FallbackStatusFirst(pumps, valves, cfg, observations) ==
    LET current_status == NormalizeStatus(ObsGet(observations, "current_status"))
        last_command   == LastCommandForElement(pumps, valves, cfg.element_id, cfg.type)
    IN  Or(current_status, last_command)

\* scada_node.py 147-150
Fallback(pumps, valves, cfg, observations) ==
    LET current_status == NormalizeStatus(ObsGet(observations, "current_status"))
        last_command   == LastCommandForElement(pumps, valves, cfg.element_id, cfg.type)
    IN  Or(last_command, current_status)

\* a bug: the legacy modes compare with <= and >=
LegacyActionInclusive(mode, threshold, lv, fallback) ==
    IF mode = "open_if_below" THEN (IF lv <= threshold THEN Some("OPEN") ELSE fallback)
    ELSE IF mode = "close_if_below" THEN (IF lv <= threshold THEN Some("CLOSED") ELSE fallback)
    ELSE IF mode = "open_if_above" THEN (IF lv >= threshold THEN Some("OPEN") ELSE fallback)
    ELSE IF mode = "close_if_above" THEN (IF lv >= threshold THEN Some("CLOSED") ELSE fallback)
    ELSE fallback

\* scada_node.py 167-183: the legacy single modes
LegacyAction(mode, threshold, lv, fallback) ==
    IF mode = "open_if_below" THEN (IF lv < threshold THEN Some("OPEN") ELSE fallback)
    ELSE IF mode = "close_if_below" THEN (IF lv < threshold THEN Some("CLOSED") ELSE fallback)
    ELSE IF mode = "open_if_above" THEN (IF lv > threshold THEN Some("OPEN") ELSE fallback)
    ELSE IF mode = "close_if_above" THEN (IF lv > threshold THEN Some("CLOSED") ELSE fallback)
    ELSE fallback

\* scada_node.py 132-183
DispatchActuatorLogic(sensors, pumps, valves, cfg, observations) ==
    LET logic    == cfg.logic
        lv       == ResolveLevel(sensors, logic.node_id, observations)
        fallback == Fallback(pumps, valves, cfg, observations)
    IN  IF logic.rules # <<>>
        THEN IF lv = None THEN fallback
             ELSE SelectRuleAction(logic.rules, lv[1], fallback)
        ELSE IF lv = None THEN fallback
             ELSE LegacyAction(logic.mode, logic.threshold, lv[1], fallback)

----------------------------------------------------------------------------
(* ScadaServer: handle_plc_request. *)

OverrideStart == 10000
OverrideEnd   == 15000
DemoPlc       == "PLC_PUMP_1"

\* a bug: the window closed at both ends
InOverrideWindowInclusive(current_time) ==
    OverrideStart <= current_time /\ current_time <= OverrideEnd

\* scada_node.py 30: 10000 < current_time < 15000
InOverrideWindow(current_time) ==
    OverrideStart < current_time /\ current_time < OverrideEnd

\* scada_node.py 30-33
UpdateOverrides(ov, current_time) ==
    IF InOverrideWindow(current_time)
    THEN DictSet(ov, DemoPlc, "OFF")
    ELSE DictPop(ov, DemoPlc)

\* a bug: the first agent of the roster stands in for an unknown id
FindPlcCfgOrFirst(plcs, plc_id) ==
    LET hits == {i \in DOMAIN plcs : Some(plcs[i].id) = plc_id}
    IN  IF hits = {} THEN Some(plcs[1])
        ELSE Some(plcs[CHOOSE i \in hits : \A j \in hits : i <= j])

\* scada_node.py 75-79: the first agent of the roster with this id, or None
FindPlcCfg(plcs, plc_id) ==
    LET hits == {i \in DOMAIN plcs : Some(plcs[i].id) = plc_id}
    IN  IF hits = {} THEN None
        ELSE Some(plcs[CHOOSE i \in hits : \A j \in hits : i <= j])

\* scada_node.py 81-87; sensors is self.latest_sensors, the result its new value
IngestSensor(cfg, observations, sensors) ==
    IF cfg.type = "tank"
    THEN LET tl == ObsGet(observations, "tank_level")
             lv == IF tl = None THEN ObsGet(observations, "level") ELSE tl
         IN  IF lv # None THEN DictSet(sensors, cfg.element_id, lv[1]) ELSE sensors
    ELSE sensors

\* a bug: the evaluated command is sent along with the override
ActuatorResponsesBoth(plc_id, ov, c, key) ==
    LET keys == (IF plc_id \in DOMAIN ov THEN {"override_action"} ELSE {})
                \cup (IF c # None THEN {key} ELSE {})
    IN  [k \in keys |-> IF k = "override_action" THEN ov[plc_id] ELSE c[1]]

\* scada_node.py 48-52 and 59-63: resp
ActuatorResponses(plc_id, ov, c, key) ==
    IF plc_id \in DOMAIN ov THEN [k \in {"override_action"} |-> ov[plc_id]]
    ELSE IF c # None THEN [k \in {key} |-> c[1]]
    ELSE EmptyDict

\* scada_node.py 41, 53, 64
OkReply(plc_id, responses) == [plc_id |-> plc_id, responses |-> responses]

\* scada_node.py 37
UnknownPlcReply(plc_id) ==
    [plc_id |-> plc_id, responses |-> EmptyDict, error |-> "unknown_plc"]

\* a bug: the error field left out
UnknownRoleReplyNoError(plc_id) == [plc_id |-> plc_id, responses |-> EmptyDict]

\* scada_node.py 66
UnknownRoleReply(plc_id) ==
    [plc_id |-> plc_id, responses |-> EmptyDict, error |-> "unknown_role"]

\* scada_node.py 27: request.get("time", 0)
TimeOf(req) == IF req.time = None THEN 0 ELSE req.time[1]

\* scada_node.py 39-41: the branch of the sensor role
SensorBranch(plc_id, cfg, observations, sensors, pumps, valves, ov2) ==
    [reply |-> OkReply(plc_id, EmptyDict),
     sensors |-> IngestSensor(cfg, observations, sensors),
     pumps |-> pumps, valves |-> valves, ov |-> ov2, cmd |-> None]

\* a bug: the forced action is recorded as the element's last command
ActuatorBranchStoresOverride(plc_id, cfg, observations, sensors, pumps, valves, ov2) ==
    LET c      == DispatchActuatorLogic(sensors, pumps, valves, cfg, observations)
        stored == IF plc_id[1] \in DOMAIN ov2 THEN Some(ov2[plc_id[1]]) ELSE c
    IN  IF cfg.type = "pump"
        THEN [reply |-> OkReply(plc_id, ActuatorResponses(plc_id[1], ov2, c, "pump_command")),
              sensors |-> sensors,
              pumps |-> IF stored # None THEN DictSet(pumps, cfg.element_id, stored[1])
                        ELSE pumps,
              valves |-> valves, ov |-> ov2, cmd |-> c]
        ELSE [reply |-> OkReply(plc_id, ActuatorResponses(plc_id[1], ov2, c, "valve_setting")),
              sensors |-> sensors, pumps |-> pumps,
              valves |-> IF stored # None THEN DictSet(valves, cfg.element_id, stored[1])
                         ELSE valves,
              ov |-> ov2, cmd |-> c]

\* a bug: the level an actuator carries is put in the cache
ActuatorBranchCachesLevel(plc_id, cfg, observations, sensors, pumps, valves, ov2) ==
    LET c  == DispatchActuatorLogic(sensors, pumps, valves, cfg, observations)
        lv == ObsGet(observations, "level")
        sn == IF lv # None /\ cfg.logic.node_id # None
              THEN DictSet(sensors, cfg.logic.node_id[1], lv[1]) ELSE sensors
    IN  IF cfg.type = "pump"
        THEN [reply |-> OkReply(plc_id, ActuatorResponses(plc_id[1], ov2, c, "pump_command")),
              sensors |-> sn,
              pumps |-> IF c # None THEN DictSet(pumps, cfg.element_id, c[1]) ELSE pumps,
              valves |-> valves, ov |-> ov2, cmd |-> c]
        ELSE [reply |-> OkReply(plc_id, ActuatorResponses(plc_id[1], ov2, c, "valve_setting")),
              sensors |-> sn, pumps |-> pumps,
              valves |-> IF c # None THEN DictSet(valves, cfg.element_id, c[1]) ELSE valves,
              ov |-> ov2, cmd |-> c]

\* scada_node.py 44-53 and 55-64: the branch of the actuator role, for an
\* agent of type pump or valve
ActuatorBranch(plc_id, cfg, observations, sensors, pumps, valves, ov2) ==
    LET c == DispatchActuatorLogic(sensors, pumps, valves, cfg, observations)
    IN  IF cfg.type = "pump"
        THEN [reply |-> OkReply(plc_id, ActuatorResponses(plc_id[1], ov2, c, "pump_command")),
              sensors |-> sensors,
              pumps |-> IF c # None THEN DictSet(pumps, cfg.element_id, c[1]) ELSE pumps,
              valves |-> valves, ov |-> ov2, cmd |-> c]
        ELSE [reply |-> OkReply(plc_id, ActuatorResponses(plc_id[1], ov2, c, "valve_setting")),
              sensors |-> sensors, pumps |-> pumps,
              valves |-> IF c # None THEN DictSet(valves, cfg.element_id, c[1]) ELSE valves,
              ov |-> ov2, cmd |-> c]

\* scada_node.py 23-66: the reply and the coordinator's state after the call
HandlePlcRequestResult(plcs, sensors, pumps, valves, ov, req) ==
    LET plc_id       == req.plc_id
        role         == req.role
        observations == req.observations
        ov2          == UpdateOverrides(ov, TimeOf(req))
        found        == FindPlcCfg(plcs, plc_id)
    IN  IF found = None
        THEN [reply |-> UnknownPlcReply(plc_id),
              sensors |-> sensors, pumps |-> pumps, valves |-> valves,
              ov |-> ov2, cmd |-> None]
        ELSE LET cfg == found[1]
             IN  IF role = Some("sensor")
                 THEN SensorBranch(plc_id, cfg, observations, sensors, pumps, valves, ov2)
                 ELSE IF role = Some("actuator") /\ cfg.type \in {"pump", "valve"}
                 THEN ActuatorBranch(plc_id, cfg, observations, sensors, pumps, valves, ov2)
                 ELSE [reply |-> UnknownRoleReply(plc_id),
                       sensors |-> sensors, pumps |-> pumps, valves |-> valves,
                       ov |-> ov2, cmd |-> None]

----------------------------------------------------------------------------
(* The requests the coordinator is handed. *)

PlcIds == {"PLC_PUMP_1", "PLC_V1", "PLC_L1", "PLC_SENSOR_T1", "PLC_SENSOR_J1", "PLC_X"}
Roles  == {"sensor", "actuator", "engineer"}
Times  == {None} \cup {Some(t) : t \in {OverrideStart, OverrideStart + 1,
                                        OverrideEnd - 1, OverrideEnd}}
OptLevels == {None} \cup {Some(l) : l \in Levels}
Statuses  == {None, Some("ON"), Some("OFF"), Some("OPEN"), Some("CLOSED"),
              Some("1"), Some("0"), Some("true"), Some("false")}

\* plc_node.py 59-63: the observations of a sensor (level), with the legacy key
SensorObs ==
    { [k \in (IF lv # None THEN {"level"} ELSE {})
              \cup (IF tl # None THEN {"tank_level"} ELSE {})
         |-> IF k = "level" THEN lv ELSE tl] : lv \in OptLevels, tl \in OptLevels }

\* plc_node.py 65-74: the observations of an actuator (level, current_status)
ActuatorObs ==
    { [k \in (IF lv # None THEN {"level"} ELSE {}) \cup {"current_status"}
         |-> IF k = "level" THEN lv ELSE st] : lv \in OptLevels, st \in Statuses }

\* plc_node.py 76-81
Requests ==
    [plc_id : {Some(p) : p \in PlcIds}, role : {Some(r) : r \in Roles},
     time : Times, observations : SensorObs \cup ActuatorObs]

----------------------------------------------------------------------------
(* The coordinator's actions. *)

\* ScadaServer.__init__ (scada_node.py 15-21)
InitScada ==
    /\ plc_config \in Rosters
    /\ latest_sensors = EmptyDict
    /\ pump_commands = EmptyDict
    /\ valve_commands = EmptyDict
    /\ overrides = EmptyDict
    /\ pc = "idle"
    /\ request = None
    /\ reply = None
    /\ cmd = None

\* run_simulation.py 120-121: a caller hands a request to the coordinator
Receive ==
    /\ pc = "idle"
    /\ \E req \in Requests : request' = Some(req)
    /\ pc' = "pending"
    /\ UNCHANGED <<plc_config, latest_sensors, pump_commands, valve_commands,
                   overrides, reply, cmd>>

\* scada_node.py 23-66
HandlePlcRequest ==
    /\ pc = "pending"
    /\ LET res == HandlePlcRequestResult(plc_config, latest_sensors, pump_commands,
                                         valve_commands, overrides, request[1])
       IN  /\ reply' = Some(res.reply)
           /\ latest_sensors' = res.sensors
           /\ pump_commands' = res.pumps
           /\ valve_commands' = res.valves
           /\ overrides' = res.ov
           /\ cmd' = res.cmd
    /\ pc' = "replied"
    /\ UNCHANGED <<plc_config, request>>

\* run_simulation.py 121-122: the caller takes the reply
Return ==
    /\ pc = "replied"
    /\ pc' = "idle"
    /\ request' = None
    /\ reply' = None
    /\ cmd' = None
    /\ UNCHANGED <<plc_config, latest_sensors, pump_commands, valve_commands, overrides>>

\* the parts of the model that a specification leaves aside
InitSelectIdle ==
    /\ arg_rules = <<>>
    /\ arg_level = 0
    /\ arg_default_action = None
    /\ chosen_action = None

InitPlcIdle ==
    /\ plc_cfg = PlcPump
    /\ last_reply = EmptyDict
    /\ delivered = None
    /\ prev_reply = EmptyDict
    /\ effect = None

InitParseIdle ==
    /\ inp_exists = TRUE
    /\ inp_lines = <<>>
    /\ line_no = 1
    /\ in_controls = FALSE
    /\ controls = <<>>
    /\ rule_index = 0
    /\ parse_pc = "idle"

InitBuildIdle ==
    /\ user_plc_config = <<>>
    /\ rules_by_link = <<>>
    /\ link_pos = 1
    /\ sensor_nodes = {}
    /\ nodes_left = {}
    /\ runtime_plcs = <<>>
    /\ build_pc = "idle"
    /\ build_no = 1
    /\ first_plcs = <<>>

InitLoopIdle ==
    /\ loop_pc = "idle"
    /\ total_steps = 0
    /\ step = 0
    /\ physical_state = <<>>
    /\ agent_pos = 1
    /\ plc_logics = <<>>
    /\ main_pump_commands = <<>>
    /\ main_valve_commands = <<>>
    /\ pump_seen = {}
    /\ valve_seen = {}
    /\ en_open = FALSE
    /\ finished = FALSE
    /\ current_time_s = 0
    /\ phys_pump_commands = <<>>
    /\ phys_valve_commands = <<>>
    /\ events = <<>>

InitEngineIdle ==
    /\ en_duration = 0
    /\ en_time = 0
    /\ en_link_status = <<>>
    /\ en_call = "none"
    /\ en_outcome = "none"
    /\ prev_call = "none"
    /\ prev_outcome = "none"
    /\ ever_reset = FALSE

InitEquivIdle ==
    /\ legacy_cmd = <<>>
    /\ rulelist_cmd = <<>>

InitOrderIdle ==
    /\ handled = {}
    /\ round_start = <<>>

InitExtraIdle == InitEngineIdle /\ InitEquivIdle /\ InitOrderIdle

InitRestIdle == InitParseIdle /\ InitBuildIdle /\ InitLoopIdle /\ InitExtraIdle

Init == InitScada /\ InitSelectIdle /\ InitPlcIdle /\ InitRestIdle

Next ==
    \/ Receive /\ UNCHANGED <<selectVars, plcVars, restVars>>
    \/ HandlePlcRequest /\ UNCHANGED <<selectVars, plcVars, restVars>>
    \/ Return /\ UNCHANGED <<selectVars, plcVars, restVars>>

Spec == Init /\ [][Next]_vars

----------------------------------------------------------------------------
(* ScadaServer._select_rule_action applied to drawn rule lists. *)

Thresholds == 1..MaxThreshold
Priorities == 0..MaxPriority

\* controls_parser.py 63-75: a parsed rule but for its rule_index
RuleBodies ==
    [node_id : {"T1"}, comparator : {"BELOW", "ABOVE"}, threshold : Thresholds,
     action : {"OPEN", "CLOSED"}, priority : Priorities]

\* controls_parser.py 72-75 and runtime_plc_builder.py 64-74: the rules of one
\* link in document order, rule_index increasing along the list
WithRuleIndex(b) ==
    [i \in 1..Len(b) |-> Rule(b[i].node_id, b[i].comparator, b[i].threshold,
                              b[i].action, b[i].priority, i - 1)]

RuleLists ==
    { WithRuleIndex(b) : b \in UNION { [1..n -> RuleBodies] : n \in 0..MaxRules } }

InitSelect ==
    /\ arg_rules \in RuleLists
    /\ arg_level \in Levels
    /\ arg_default_action \in {None, Some("OPEN"), Some("CLOSED")}
    /\ chosen_action = None

\* a call of _select_rule_action (scada_node.py 107-130); chosen_action holds
\* the returned option
Evaluate ==
    /\ chosen_action = None
    /\ chosen_action' = Some(SelectRuleAction(arg_rules, arg_level, arg_default_action))
    /\ UNCHANGED <<arg_rules, arg_level, arg_default_action>>

InitScadaIdle ==
    /\ plc_config = << >>
    /\ latest_sensors = EmptyDict
    /\ pump_commands = EmptyDict
    /\ valve_commands = EmptyDict
    /\ overrides = EmptyDict
    /\ pc = "idle"
    /\ request = None
    /\ reply = None
    /\ cmd = None

NextSelect == Evaluate /\ UNCHANGED <<scadaVars, plcVars, restVars>>

InitSelectSpec == InitScadaIdle /\ InitSelect /\ InitPlcIdle /\ InitRestIdle

SpecSelect == InitSelectSpec /\ [][NextSelect]_vars

----------------------------------------------------------------------------
(* PlcLogic: update_from_scada_reply and get_actuator_effect. *)

AgentCfgs == {PlcPump, PlcValve, PlcValveOld, PlcLink, PlcTank, PlcJunction}

\* the responses of a reply: any of the three keys the agent looks for
ResponseDicts ==
    { [k \in (IF ov # None THEN {"override_action"} ELSE {})
              \cup (IF pc0 # None THEN {"pump_command"} ELSE {})
              \cup (IF vs # None THEN {"valve_setting"} ELSE {})
         |-> IF k = "override_action" THEN ov[1]
             ELSE IF k = "pump_command" THEN pc0[1] ELSE vs[1]] :
        ov \in {None, Some("OFF")},
        pc0 \in {None, Some("OPEN"), Some("CLOSED")},
        vs \in {None, Some("OPEN"), Some("CLOSED")} }

\* the replies update_from_scada_reply may be handed: None, the empty dict, a
\* reply without responses, and replies with and without an error
ReplyArgs ==
    {None, Some(EmptyDict), Some([plc_id |-> Some("PLC")])}
    \cup {Some(OkReply(Some("PLC"), resp)) : resp \in ResponseDicts}
    \cup {Some([plc_id |-> Some("PLC"), responses |-> resp, error |-> e]) :
              resp \in ResponseDicts, e \in {"unknown_plc", "unknown_role"}}

\* a bug: a falsy reply leaves the stored reply in place
UpdateFromScadaReplyKeep(self_last_reply, r) ==
    IF r = None \/ DOMAIN r[1] = {} THEN self_last_reply ELSE r[1]

\* plc_node.py 85-86: self.last_reply = reply or {}
UpdateFromScadaReplyResult(self_last_reply, r) ==
    IF r = None \/ DOMAIN r[1] = {} THEN EmptyDict ELSE r[1]

\* plc_node.py 88-111
GetActuatorEffectResult(cfg, self_last_reply) ==
    IF cfg.role # "actuator" THEN EmptyDict
    ELSE LET element_id == cfg.element_id
             responses  == IF "responses" \in DOMAIN self_last_reply
                           THEN self_last_reply.responses ELSE EmptyDict
         IN  IF cfg.type = "pump" /\ "override_action" \in DOMAIN responses
             THEN [k \in {element_id} |-> responses.override_action]
             ELSE IF cfg.type = "pump" /\ "pump_command" \in DOMAIN responses
             THEN [k \in {element_id} |-> responses.pump_command]
             ELSE IF cfg.type = "valve" /\ "override_action" \in DOMAIN responses
             THEN [k \in {element_id} |-> responses.override_action]
             ELSE IF cfg.type = "valve" /\ "valve_setting" \in DOMAIN responses
             THEN [k \in {element_id} |-> responses.valve_setting]
             ELSE EmptyDict

\* PlcLogic.__init__ (plc_node.py 17-21)
InitPlc ==
    /\ plc_cfg \in AgentCfgs
    /\ last_reply = EmptyDict
    /\ delivered = None
    /\ prev_reply = EmptyDict
    /\ effect = None

\* plc_node.py 85-86
UpdateFromScadaReply ==
    /\ \E r \in ReplyArgs :
          /\ last_reply' = UpdateFromScadaReplyResult(last_reply, r)
          /\ delivered' = Some(r)
    /\ prev_reply' = last_reply
    /\ effect' = None
    /\ UNCHANGED plc_cfg

\* plc_node.py 88-111; effect holds the returned dict
GetActuatorEffect ==
    /\ effect = None
    /\ effect' = Some(GetActuatorEffectResult(plc_cfg, last_reply))
    /\ UNCHANGED <<plc_cfg, last_reply, delivered, prev_reply>>

NextPlc ==
    \/ UpdateFromScadaReply /\ UNCHANGED <<scadaVars, selectVars, restVars>>
    \/ GetActuatorEffect /\ UNCHANGED <<scadaVars, selectVars, restVars>>

InitPlcSpec == InitScadaIdle /\ InitSelectIdle /\ InitPlc /\ InitRestIdle

SpecPlc == InitPlcSpec /\ [][NextPlc]_vars

----------------------------------------------------------------------------
(* parse_controls_from_inp.  A line of the document is the sequence of its  *)
(* words (line.strip() and the runs of whitespace between the words are     *)
(* taken away); a word is the sequence of its characters.                   *)

LowerCase == <<"a", "b", "c", "d", "e", "f", "g", "h", "i", "j", "k", "l", "m",
               "n", "o", "p", "q", "r", "s", "t", "u", "v", "w", "x", "y", "z">>
UpperCase == <<"A", "B", "C", "D", "E", "F", "G", "H", "I", "J", "K", "L", "M",
               "N", "O", "P", "Q", "R", "S", "T", "U", "V", "W", "X", "Y", "Z">>

\* str.upper() of a character, and of a word
UpperChar(c) ==
    IF \E i \in DOMAIN LowerCase : LowerCase[i] = c
    THEN UpperCase[CHOOSE i \in DOMAIN LowerCase : LowerCase[i] = c]
    ELSE c
UpperWord(w) == [i \in DOMAIN w |-> UpperChar(w[i])]

Digits == {"0", "1", "2", "3", "4", "5", "6", "7", "8", "9"}

\* controls_parser.py 41: the class [0-9eE\.\+\-]
NumberChars == Digits \cup {"e", "E", ".", "+", "-"}

\* the longest prefix of a word made of characters of a class: what a greedy
\* class+ takes at the start of the word
RECURSIVE PrefixIn(_, _)
PrefixIn(w, class) ==
    IF w = <<>> \/ Head(w) \notin class THEN <<>>
    ELSE <<Head(w)>> \o PrefixIn(Tail(w), class)

\* the words of the pattern
W_LINK     == <<"L", "I", "N", "K">>
W_OPEN     == <<"O", "P", "E", "N">>
W_CLOSED   == <<"C", "L", "O", "S", "E", "D">>
W_IF       == <<"I", "F">>
W_NODE     == <<"N", "O", "D", "E">>
W_BELOW    == <<"B", "E", "L", "O", "W">>
W_ABOVE    == <<"A", "B", "O", "V", "E">>
W_PRIORITY == <<"P", "R", "I", "O", "R", "I", "T", "Y">>
W_CONTROLS == <<"[", "C", "O", "N", "T", "R", "O", "L", "S", "]">>

\* controls_parser.py 40-44 and 60: pattern.match(line), the groups or None.
\* match() anchors the pattern at the start of the line only; the words are
\* compared without regard to case; the threshold is the longest run of
\* number characters at the start of the eighth word, and the PRIORITY part
\* is taken only when whitespace follows that run.
PatternMatch(line) ==
    IF /\ Len(line) >= 8
       /\ UpperWord(line[1]) = W_LINK
       /\ UpperWord(line[3]) \in {W_OPEN, W_CLOSED}
       /\ UpperWord(line[4]) = W_IF
       /\ UpperWord(line[5]) = W_NODE
       /\ UpperWord(line[7]) \in {W_BELOW, W_ABOVE}
       /\ PrefixIn(line[8], NumberChars) # <<>>
    THEN Some([link_id    |-> line[2],
               action     |-> line[3],
               node_id    |-> line[6],
               comparator |-> line[7],
               threshold  |-> PrefixIn(line[8], NumberChars),
               priority   |-> IF /\ PrefixIn(line[8], NumberChars) = line[8]
                                 /\ Len(line) >= 10
                                 /\ UpperWord(line[9]) = W_PRIORITY
                                 /\ PrefixIn(line[10], Digits) # <<>>
                              THEN Some(PrefixIn(line[10], Digits))
                              ELSE None])
    ELSE None

\* the value of a digit, and int() of a word of digits
DigitValue(c) ==
    CASE c = "0" -> 0 [] c = "1" -> 1 [] c = "2" -> 2 [] c = "3" -> 3 [] c = "4" -> 4
      [] c = "5" -> 5 [] c = "6" -> 6 [] c = "7" -> 7 [] c = "8" -> 8 [] c = "9" -> 9
RECURSIVE IntOf(_)
IntOf(w) ==
    IF w = <<>> THEN 0
    ELSE IntOf(SubSeq(w, 1, Len(w) - 1)) * 10 + DigitValue(w[Len(w)])

\* controls_parser.py 70: float(threshold), None when it raises ValueError.
\* Of the words of number characters written in the documents drawn here,
\* the words of digits are numbers and the others are not.
FloatOf(w) ==
    IF \A i \in DOMAIN w : w[i] \in Digits THEN Some(IntOf(w)) ELSE None

\* a bug: the counter moves with every line of the section, matched or not
RuleIndexAfterEveryLine(idx, matched) == idx + 1

\* controls_parser.py 61-62 and 75: the counter moves with a matched line only
RuleIndexAfter(idx, matched) == IF matched THEN idx + 1 ELSE idx

\* controls_parser.py 64-74
ControlRule(groups, idx) ==
    [link_id    |-> groups.link_id,
     node_id    |-> groups.node_id,
     comparator |-> UpperWord(groups.comparator),
     action     |-> UpperWord(groups.action),
     threshold  |-> FloatOf(groups.threshold)[1],
     priority   |-> IF groups.priority # None THEN IntOf(groups.priority[1]) ELSE 0,
     rule_index |-> idx]

\* controls_parser.py 50-59: what the loop does with a line before matching
IsBlankOrComment(line) == line = <<>> \/ line[1][1] = ";"
IsControlsHeader(line) ==
    /\ Len(line[1]) >= Len(W_CONTROLS)
    /\ UpperWord(SubSeq(line[1], 1, Len(W_CONTROLS))) = W_CONTROLS
IsSectionHeader(line) == line[1][1] = "["

\* the lines written in the drawn documents
RuleHead     == << W_LINK, <<"P", "1">>, W_OPEN, W_IF, W_NODE, <<"T", "1">>, W_BELOW >>
LinePlain    == RuleHead \o << <<"1">> >>
LinePriority == << W_LINK, <<"V", "1">>, W_CLOSED, W_IF, W_NODE, <<"T", "2">>, W_ABOVE,
                   <<"2">>, W_PRIORITY, <<"1", "0">> >>
LineLower    == << <<"l", "i", "n", "k">>, <<"P", "1">>, <<"c", "l", "o", "s", "e", "d">>,
                   <<"i", "f">>, <<"n", "o", "d", "e">>, <<"T", "1">>,
                   <<"a", "b", "o", "v", "e">>, <<"2">>,
                   <<"p", "r", "i", "o", "r", "i", "t", "y">>, <<"2">> >>
LineExtra    == LinePlain \o << <<"A", "T">>, <<"N", "I", "G", "H", "T">> >>
LineBadFloat == RuleHead \o << <<"1", "e">> >>
LineNoIf     == << W_LINK, <<"P", "1">>, W_OPEN, W_NODE, <<"T", "1">>, W_BELOW, <<"1">> >>
LineBadPriority == LinePlain \o << W_PRIORITY, <<"x">> >>
LineBlank    == <<>>
LineComment  == << <<";">>, W_LINK >>
LineControls == << W_CONTROLS >>
LineControlsLower == << <<"[", "c", "o", "n", "t", "r", "o", "l", "s", "]">> >>
LineSection  == << <<"[", "P", "U", "M", "P", "S", "]">> >>

Lines == {LinePlain, LinePriority, LineLower, LineExtra, LineBadFloat, LineNoIf,
          LineBadPriority, LineBlank, LineComment, LineControls, LineControlsLower,
          LineSection}

Documents == UNION { [1..n -> Lines] : n \in 0..MaxLines }

\* the caller names a document, which may not exist
InitParse ==
    /\ inp_exists \in BOOLEAN
    /\ inp_lines \in Documents
    /\ line_no = 1
    /\ in_controls = FALSE
    /\ controls = <<>>
    /\ rule_index = 0
    /\ parse_pc = "open"

\* controls_parser.py 34-47
ParseOpen ==
    /\ parse_pc = "open"
    /\ parse_pc' = IF inp_exists THEN "scan" ELSE "not_found"
    /\ UNCHANGED <<inp_exists, inp_lines, line_no, in_controls, controls, rule_index>>

\* controls_parser.py 48-75: one turn of the loop over the lines
ParseLine ==
    /\ parse_pc = "scan"
    /\ line_no <= Len(inp_lines)
    /\ LET line == inp_lines[line_no]
           m    == PatternMatch(line)
       IN  IF IsBlankOrComment(line)
           THEN /\ line_no' = line_no + 1
                /\ UNCHANGED <<in_controls, controls, rule_index, parse_pc>>
           ELSE IF IsControlsHeader(line)
           THEN /\ in_controls' = TRUE
                /\ line_no' = line_no + 1
                /\ UNCHANGED <<controls, rule_index, parse_pc>>
           ELSE IF in_controls /\ IsSectionHeader(line)
           THEN /\ parse_pc' = "done"
                /\ UNCHANGED <<line_no, in_controls, controls, rule_index>>
           ELSE IF ~in_controls
           THEN /\ line_no' = line_no + 1
                /\ UNCHANGED <<in_controls, controls, rule_index, parse_pc>>
           ELSE IF m = None
           THEN /\ line_no' = line_no + 1
                /\ rule_index' = RuleIndexAfter(rule_index, FALSE)
                /\ UNCHANGED <<in_controls, controls, parse_pc>>
           ELSE IF FloatOf(m[1].threshold) = None
           THEN /\ parse_pc' = "value_error"
                /\ UNCHANGED <<line_no, in_controls, controls, rule_index>>
           ELSE /\ controls' = Append(controls, ControlRule(m[1], rule_index))
                /\ rule_index' = RuleIndexAfter(rule_index, TRUE)
                /\ line_no' = line_no + 1
                /\ UNCHANGED <<in_controls, parse_pc>>
    /\ UNCHANGED <<inp_exists, inp_lines>>

\* controls_parser.py 76: the lines are exhausted and controls is returned
ParseReturn ==
    /\ parse_pc = "scan"
    /\ line_no > Len(inp_lines)
    /\ parse_pc' = "done"
    /\ UNCHANGED <<inp_exists, inp_lines, line_no, in_controls, controls, rule_index>>

NextParse ==
    \/ ParseOpen /\ UNCHANGED <<scadaVars, selectVars, plcVars, buildVars, loopVars, extraVars>>
    \/ ParseLine /\ UNCHANGED <<scadaVars, selectVars, plcVars, buildVars, loopVars, extraVars>>
    \/ ParseReturn /\ UNCHANGED <<scadaVars, selectVars, plcVars, buildVars, loopVars, extraVars>>

InitParseSpec ==
    /\ InitScadaIdle /\ InitSelectIdle /\ InitPlcIdle
    /\ InitParse /\ InitBuildIdle /\ InitLoopIdle /\ InitExtraIdle

SpecParse == InitParseSpec /\ [][NextParse]_vars

----------------------------------------------------------------------------
(* build_runtime_plc_config.  Ids and addresses are words, as in the        *)
(* parser; the hydraulic network of the document is a fixed one.            *)

W_PLC_        == <<"P", "L", "C", "_">>
W_PLC_SENSOR_ == <<"P", "L", "C", "_", "S", "E", "N", "S", "O", "R", "_">>
W_DefaultIp   == <<"1", "0", ".", "0", ".", "0", ".", "2", "5", "0">>
W_SensorNet   == <<"1", "0", ".", "0", ".", "1", ".">>

\* str() of a natural number
RECURSIVE StrOf(_)
StrOf(n) ==
    LET d == <<"0", "1", "2", "3", "4", "5", "6", "7", "8", "9">>[(n % 10) + 1]
    IN  IF n < 10 THEN <<d>> ELSE StrOf(n \div 10) \o <<d>>

\* the wntr classes of the links and nodes of the network, lower-cased
LinkClass(link_id) ==
    CASE link_id = <<"P", "1">> -> "headpump"
      [] link_id = <<"V", "1">> -> "prvalve"
      [] OTHER                  -> "pipe"
NodeClass(node_id) ==
    CASE node_id = <<"T", "1">> -> "tank"
      [] node_id = <<"T", "2">> -> "tank"
      [] node_id = <<"R", "1">> -> "reservoir"
      [] OTHER                  -> "junction"

\* runtime_plc_builder.py 11-18
InferElementType(link_id) ==
    IF LinkClass(link_id) \in {"headpump", "powerpump", "pump"} THEN "pump"
    ELSE IF LinkClass(link_id) \in {"prvalve", "tcvalve", "valve"} THEN "valve"
    ELSE "link"

\* runtime_plc_builder.py 21-28
NodeType(node_id) ==
    IF NodeClass(node_id) = "tank" THEN "tank"
    ELSE IF NodeClass(node_id) = "reservoir" THEN "reservoir"
    ELSE "junction"

\* runtime_plc_builder.py 42: the last entry of the user with this element_id
UserByElem(plcs, element_id) ==
    LET hits == {i \in DOMAIN plcs : plcs[i].element_id = element_id}
    IN  IF hits = {} THEN None
        ELSE Some(plcs[CHOOSE i \in hits : \A j \in hits : j <= i])

\* a bug: every rule makes a group of its own
GroupPerRule(ctls) == [i \in DOMAIN ctls |-> <<ctls[i].link_id, <<ctls[i]>> >>]

\* runtime_plc_builder.py 48-50: setdefault(link_id, []).append(ctl), the
\* dict written as the sequence of its items in insertion order
RECURSIVE GroupByLink(_)
GroupByLink(ctls) ==
    IF ctls = <<>> THEN <<>>
    ELSE LET before == GroupByLink(SubSeq(ctls, 1, Len(ctls) - 1))
             ctl    == ctls[Len(ctls)]
             hits   == {i \in DOMAIN before : before[i][1] = ctl.link_id}
         IN  IF hits = {} THEN Append(before, <<ctl.link_id, <<ctl>> >>)
             ELSE [i \in DOMAIN before |->
                     IF i \in hits THEN <<before[i][1], Append(before[i][2], ctl)>>
                     ELSE before[i]]

\* runtime_plc_builder.py 64-74
LogicRules(rules) ==
    [i \in DOMAIN rules |->
        [node_id |-> rules[i].node_id, comparator |-> rules[i].comparator,
         threshold |-> rules[i].threshold, action |-> rules[i].action,
         priority |-> rules[i].priority, rule_index |-> rules[i].rule_index]]

\* runtime_plc_builder.py 53-60 and 76-87
PlcEntry(plcs, link_id, rules) ==
    LET found   == UserByElem(plcs, link_id)
        minimal == IF found = None
                   THEN [id |-> W_PLC_ \o link_id, element_id |-> link_id,
                         ip |-> Some(W_DefaultIp)]
                   ELSE found[1]
    IN  [id         |-> minimal.id,
         element_id |-> minimal.element_id,
         ip         |-> IF minimal.ip # None THEN minimal.ip[1] ELSE W_DefaultIp,
         role       |-> "actuator",
         type       |-> InferElementType(link_id),
         logic      |-> [mode |-> "rule_list", node_id |-> Some(rules[1].node_id),
                         rules |-> LogicRules(rules)]]

\* runtime_plc_builder.py 95-104
SensorEntry(node_id, plcs) ==
    [id         |-> W_PLC_SENSOR_ \o node_id,
     element_id |-> node_id,
     ip         |-> W_SensorNet \o StrOf(Len(plcs) + 10),
     role       |-> "sensor",
     type       |-> NodeType(node_id),
     logic      |-> [mode |-> "report_level", node_id |-> Some(node_id)]]

\* runtime_plc_builder.py 91
ExistingSensorNodes(plcs) ==
    {plcs[i].element_id : i \in {j \in DOMAIN plcs : plcs[j].role = "sensor"}}

\* the lines written in the documents handed to the builder
LinePumpT2 == << W_LINK, <<"P", "1">>, W_CLOSED, W_IF, W_NODE, <<"T", "2">>, W_ABOVE,
                 <<"2">> >>
LinePipe   == << W_LINK, <<"L", "1">>, W_CLOSED, W_IF, W_NODE, <<"J", "1">>, W_BELOW,
                 <<"1">> >>
BuildLines == {LineControls, LinePlain, LinePriority, LinePumpT2, LinePipe}
BuildDocuments == UNION { [1..n -> BuildLines] : n \in 0..MaxLines }

\* the entries a user writes: id, element_id, and perhaps ip and role
UserPump   == [id |-> <<"P", "L", "C", "_", "A">>, element_id |-> <<"P", "1">>,
               ip |-> Some(<<"1", "0", ".", "0", ".", "0", ".", "1">>), role |-> None]
UserPumpB  == [id |-> <<"P", "L", "C", "_", "B">>, element_id |-> <<"P", "1">>,
               ip |-> None, role |-> None]
UserTank   == [id |-> <<"P", "L", "C", "_", "T">>, element_id |-> <<"T", "1">>,
               ip |-> Some(<<"1", "0", ".", "0", ".", "0", ".", "2">>),
               role |-> Some("sensor")]
\* an entry for P1 under the id the builder synthesizes for V1
UserPumpV1 == [id |-> W_PLC_ \o <<"V", "1">>, element_id |-> <<"P", "1">>,
               ip |-> Some(<<"1", "0", ".", "0", ".", "0", ".", "1">>), role |-> None]
UserRosters == { <<>>, <<UserPump>>, <<UserPump, UserPumpB>>, <<UserTank, UserPump>>,
                 <<UserPumpB, UserTank>>, <<UserPumpV1>> }

\* runtime_plc_builder.py 31-39: the call, which first reads the document
InitBuild ==
    /\ inp_exists = TRUE
    /\ inp_lines \in BuildDocuments
    /\ line_no = 1
    /\ in_controls = FALSE
    /\ controls = <<>>
    /\ rule_index = 0
    /\ parse_pc = "open"
    /\ user_plc_config \in UserRosters
    /\ rules_by_link = <<>>
    /\ link_pos = 1
    /\ sensor_nodes = {}
    /\ nodes_left = {}
    /\ runtime_plcs = <<>>
    /\ build_pc = "start"
    /\ build_no = 1
    /\ first_plcs = <<>>

\* runtime_plc_builder.py 39-50: the rules are back and are grouped
BuildGroup ==
    /\ build_pc = "start" /\ parse_pc = "done"
    /\ rules_by_link' = GroupByLink(controls)
    /\ link_pos' = 1
    /\ build_pc' = "links"
    /\ UNCHANGED <<user_plc_config, sensor_nodes, nodes_left, runtime_plcs,
                   build_no, first_plcs>>

\* runtime_plc_builder.py 52-88: one turn of the loop over the groups
BuildActuator ==
    /\ build_pc = "links"
    /\ link_pos <= Len(rules_by_link)
    /\ LET link_id == rules_by_link[link_pos][1]
           rules   == rules_by_link[link_pos][2]
       IN  /\ sensor_nodes' = sensor_nodes \cup {rules[i].node_id : i \in DOMAIN rules}
           /\ runtime_plcs' = Append(runtime_plcs, PlcEntry(user_plc_config, link_id, rules))
    /\ link_pos' = link_pos + 1
    /\ UNCHANGED <<user_plc_config, rules_by_link, nodes_left, build_pc, build_no,
                   first_plcs>>

\* runtime_plc_builder.py 91-92: the loop over the set sensor_nodes begins
BuildEnterSensors ==
    /\ build_pc = "links"
    /\ link_pos > Len(rules_by_link)
    /\ nodes_left' = sensor_nodes
    /\ build_pc' = "sensors"
    /\ UNCHANGED <<user_plc_config, rules_by_link, link_pos, sensor_nodes,
                   runtime_plcs, build_no, first_plcs>>

\* runtime_plc_builder.py 92-104: one turn of the loop over sensor_nodes.  A
\* set of strings is iterated in the order of the hashes of its members,
\* which changes from one run of the interpreter to the next: the next
\* member is any of those left.
BuildSensor ==
    /\ build_pc = "sensors"
    /\ \E node_id \in nodes_left :
          /\ nodes_left' = nodes_left \ {node_id}
          /\ runtime_plcs' =
                IF node_id \in ExistingSensorNodes(runtime_plcs) THEN runtime_plcs
                ELSE Append(runtime_plcs, SensorEntry(node_id, runtime_plcs))
    /\ UNCHANGED <<user_plc_config, rules_by_link, link_pos, sensor_nodes, build_pc,
                   build_no, first_plcs>>

\* runtime_plc_builder.py 106-110
BuildReturn ==
    /\ build_pc = "sensors"
    /\ nodes_left = {}
    /\ build_pc' = "built"
    /\ UNCHANGED <<user_plc_config, rules_by_link, link_pos, sensor_nodes, nodes_left,
                   runtime_plcs, build_no, first_plcs>>

\* the roster is built a second time from the same user roster and document
BuildAgain ==
    /\ build_pc = "built" /\ build_no = 1
    /\ first_plcs' = runtime_plcs
    /\ build_no' = 2
    /\ build_pc' = "start"
    /\ rules_by_link' = <<>>
    /\ link_pos' = 1
    /\ sensor_nodes' = {}
    /\ nodes_left' = {}
    /\ runtime_plcs' = <<>>
    /\ parse_pc' = "open"
    /\ line_no' = 1
    /\ in_controls' = FALSE
    /\ controls' = <<>>
    /\ rule_index' = 0
    /\ UNCHANGED <<user_plc_config, inp_exists, inp_lines>>

NextBuild ==
    \/ ParseOpen /\ UNCHANGED <<scadaVars, selectVars, plcVars, buildVars, loopVars, extraVars>>
    \/ ParseLine /\ UNCHANGED <<scadaVars, selectVars, plcVars, buildVars, loopVars, extraVars>>
    \/ ParseReturn /\ UNCHANGED <<scadaVars, selectVars, plcVars, buildVars, loopVars, extraVars>>
    \/ BuildGroup /\ UNCHANGED <<scadaVars, selectVars, plcVars, parseVars, loopVars, extraVars>>
    \/ BuildActuator /\ UNCHANGED <<scadaVars, selectVars, plcVars, parseVars, loopVars, extraVars>>
    \/ BuildEnterSensors /\ UNCHANGED <<scadaVars, selectVars, plcVars, parseVars, loopVars, extraVars>>
    \/ BuildSensor /\ UNCHANGED <<scadaVars, selectVars, plcVars, parseVars, loopVars, extraVars>>
    \/ BuildReturn /\ UNCHANGED <<scadaVars, selectVars, plcVars, parseVars, loopVars, extraVars>>
    \/ BuildAgain /\ UNCHANGED <<scadaVars, selectVars, plcVars, loopVars, extraVars>>

InitBuildSpec ==
    /\ InitScadaIdle /\ InitSelectIdle /\ InitPlcIdle
    /\ InitBuild /\ InitLoopIdle /\ InitExtraIdle

SpecBuild == InitBuildSpec /\ [][NextBuild]_vars

----------------------------------------------------------------------------
(* The step loop of main (run_simulation.py 112-167), over the coordinator, *)
(* the agents' PlcLogic and the physical engine.  The loop is entered with  *)
(* an engine that has been reset (physical_sim.py 90-101).                  *)

\* d.update(e)
DictUpdate(d, e) ==
    [k \in (DOMAIN d) \cup (DOMAIN e) |-> IF k \in DOMAIN e THEN e[k] ELSE d[k]]

\* physical_sim.py 148-184 and 207-215: what step() can read from the engine
\* for the network's tank T1, pump P1 and valve V1
SnapshotTimes == {0, OverrideStart + 1}
EngineTanks == {"T1", "T2"}
Snapshots ==
    { [time |-> t, tanks |-> l,
       pumps |-> [k \in {"P1"} |-> p], valves |-> [k \in {"V1"} |-> v]] :
        t \in SnapshotTimes, l \in [EngineTanks -> Levels],
        p \in {"ON", "OFF"}, v \in {"OPEN", "CLOSED"} }

\* plc_node.py 50-83
BuildRequest(cfg, state) ==
    LET logic   == cfg.logic
        sensed  == IF logic.node_id # None THEN logic.node_id[1] ELSE cfg.element_id
        slevel  == DictGet(state.tanks, sensed)
        alevel  == IF logic.node_id # None THEN DictGet(state.tanks, logic.node_id[1])
                   ELSE None
        status  == Or(DictGet(state.pumps, cfg.element_id),
                      DictGet(state.valves, cfg.element_id))
        observations ==
            IF cfg.role = "sensor"
            THEN [k \in (IF slevel # None THEN {"level"} ELSE {}) |-> slevel]
            ELSE IF cfg.role = "actuator"
            THEN [k \in (IF alevel # None THEN {"level"} ELSE {}) \cup {"current_status"}
                    |-> IF k = "level" THEN alevel ELSE status]
            ELSE EmptyDict
    IN  [plc_id |-> Some(cfg.id), role |-> Some(cfg.role), time |-> Some(state.time),
         observations |-> observations]

\* two agents that target an element another agent of the roster targets
PumpRulesB  == << Rule("T1", "BELOW", 2, "CLOSED", 0, 5) >>
ValveRulesB == << Rule("T1", "ABOVE", 0, "OPEN", 0, 6) >>
PlcPumpB    == Plc("PLC_PUMP_1B", "P1", "actuator", "pump", RuleListLogic(PumpRulesB))
PlcValveB   == Plc("PLC_V1B", "V1", "actuator", "valve", RuleListLogic(ValveRulesB))

\* LINK P1 OPEN IF NODE T1 BELOW 1 ; LINK P1 CLOSED IF NODE T2 ABOVE 1:
\* a group whose rules name two nodes, and the sensor of the second
MixedRules   == << Rule("T1", "BELOW", 1, "OPEN", 0, 0), Rule("T2", "ABOVE", 1, "CLOSED", 0, 1) >>
PlcPumpMixed == Plc("PLC_PUMP_1", "P1", "actuator", "pump", RuleListLogic(MixedRules))
PlcTank2     == Plc("PLC_SENSOR_T2", "T2", "sensor", "tank", ReportLevelLogic("T2"))

\* the rosters main runs the loop with: those of the coordinator, one in
\* which P1 and V1 are each targeted by two agents, and one whose pump has a
\* group over two nodes
LoopRosters ==
    Rosters \cup { << PlcPump, PlcPumpB, PlcValve, PlcValveB, PlcTank >>,
                   << PlcPumpMixed, PlcTank, PlcTank2 >> }

\* the head of the loop, with the coordinator and the agents as main made
\* them (run_simulation.py 70-71) and the engine as reset() leaves it
InitLoop ==
    /\ plc_config \in LoopRosters
    /\ latest_sensors = EmptyDict
    /\ pump_commands = EmptyDict
    /\ valve_commands = EmptyDict
    /\ overrides = EmptyDict
    /\ pc = "idle"
    /\ request = None
    /\ reply = None
    /\ cmd = None
    /\ loop_pc = "top"
    /\ total_steps \in 0..MaxSteps
    /\ step = 0
    /\ physical_state = None
    /\ agent_pos = 1
    /\ plc_logics = [id \in {plc_config[i].id : i \in DOMAIN plc_config} |-> EmptyDict]
    /\ main_pump_commands = EmptyDict
    /\ main_valve_commands = EmptyDict
    /\ pump_seen = {}
    /\ valve_seen = {}
    /\ en_open = TRUE
    /\ finished = FALSE
    /\ current_time_s = 0
    /\ phys_pump_commands = EmptyDict
    /\ phys_valve_commands = EmptyDict
    /\ events = <<>>

\* run_simulation.py 112 and 168-174: range(total_steps) is exhausted and
\* main closes the engine (physical_sim.py 194-205)
LoopExhausted ==
    /\ loop_pc = "top"
    /\ step >= total_steps
    /\ loop_pc' = "ended"
    /\ en_open' = FALSE
    /\ UNCHANGED <<total_steps, step, physical_state, agent_pos, plc_logics,
                   main_pump_commands, main_valve_commands, pump_seen, valve_seen,
                   finished, current_time_s, phys_pump_commands,
                   phys_valve_commands, events>>
    /\ UNCHANGED scadaVars

\* run_simulation.py 114-116 with physical_sim.py 139-192: phys.step().  A
\* finished engine returns None and the loop breaks; a closed one raises;
\* otherwise the snapshot is read, and the engine finishes and closes itself
\* when the hydraulic solver says so.
LoopStep ==
    /\ loop_pc = "top"
    /\ step < total_steps
    /\ IF finished
       THEN /\ loop_pc' = "ended"
            /\ en_open' = FALSE
            /\ UNCHANGED <<physical_state, finished, current_time_s, events>>
       ELSE IF ~en_open
       THEN /\ loop_pc' = "runtime_error"
            /\ UNCHANGED <<physical_state, en_open, finished, current_time_s, events>>
       ELSE \E snapshot \in Snapshots, done \in BOOLEAN :
               /\ physical_state' = Some(snapshot)
               /\ current_time_s' = snapshot.time
               /\ finished' = done
               /\ en_open' = ~done
               /\ events' = << <<"step">> >>
               /\ loop_pc' = "requests"
    /\ agent_pos' = 1
    /\ UNCHANGED <<total_steps, step, plc_logics, main_pump_commands,
                   main_valve_commands, pump_seen, valve_seen, phys_pump_commands,
                   phys_valve_commands>>
    /\ UNCHANGED scadaVars

\* run_simulation.py 119-120: plc_logic.build_request(physical_state)
LoopBuildRequest ==
    /\ loop_pc = "requests" /\ pc = "idle"
    /\ agent_pos <= Len(plc_config)
    /\ request' = Some(BuildRequest(plc_config[agent_pos], physical_state[1]))
    /\ pc' = "pending"
    /\ events' = Append(events, <<"build_request", plc_config[agent_pos].id>>)
    /\ UNCHANGED <<plc_config, latest_sensors, pump_commands, valve_commands,
                   overrides, reply, cmd>>
    /\ UNCHANGED <<loop_pc, total_steps, step, physical_state, agent_pos, plc_logics,
                   main_pump_commands, main_valve_commands, pump_seen, valve_seen,
                   en_open, finished, current_time_s, phys_pump_commands,
                   phys_valve_commands>>

\* run_simulation.py 121: scada.handle_plc_request(request)
LoopHandle ==
    /\ loop_pc = "requests"
    /\ HandlePlcRequest
    /\ events' = Append(events, <<"handle_plc_request", plc_config[agent_pos].id>>)
    /\ UNCHANGED <<loop_pc, total_steps, step, physical_state, agent_pos, plc_logics,
                   main_pump_commands, main_valve_commands, pump_seen, valve_seen,
                   en_open, finished, current_time_s, phys_pump_commands,
                   phys_valve_commands>>

\* run_simulation.py 122: plc_logic.update_from_scada_reply(reply)
LoopUpdate ==
    /\ loop_pc = "requests" /\ pc = "replied"
    /\ plc_logics' = [plc_logics EXCEPT ![plc_config[agent_pos].id] =
                        UpdateFromScadaReplyResult(@, reply)]
    /\ agent_pos' = agent_pos + 1
    /\ pc' = "idle"
    /\ request' = None
    /\ reply' = None
    /\ cmd' = None
    /\ events' = Append(events, <<"update_from_scada_reply", plc_config[agent_pos].id>>)
    /\ UNCHANGED <<plc_config, latest_sensors, pump_commands, valve_commands, overrides>>
    /\ UNCHANGED <<loop_pc, total_steps, step, physical_state,
                   main_pump_commands, main_valve_commands, pump_seen, valve_seen,
                   en_open, finished, current_time_s, phys_pump_commands,
                   phys_valve_commands>>

\* run_simulation.py 124-128: every agent has its reply; the merge begins
LoopAggregate ==
    /\ loop_pc = "requests" /\ pc = "idle"
    /\ agent_pos > Len(plc_config)
    /\ main_pump_commands' = EmptyDict
    /\ main_valve_commands' = EmptyDict
    /\ pump_seen' = {}
    /\ valve_seen' = {}
    /\ agent_pos' = 1
    /\ loop_pc' = "effects"
    /\ UNCHANGED <<total_steps, step, physical_state, plc_logics, en_open, finished,
                   current_time_s, phys_pump_commands, phys_valve_commands, events>>
    /\ UNCHANGED scadaVars

\* a bug: the effect of every agent is merged, seen or not
MergeEffectLastWins(seen, commands, elem, result) ==
    [seen |-> seen \cup {elem}, commands |-> DictUpdate(commands, result)]

\* run_simulation.py 132-137 and 138-143: the merge of one agent's effect
\* into the command map of its type
MergeEffect(seen, commands, elem, result) ==
    IF elem \in seen THEN [seen |-> seen, commands |-> commands]
    ELSE [seen |-> seen \cup {elem}, commands |-> DictUpdate(commands, result)]

\* run_simulation.py 129-143: one turn of the loop over the roster
LoopEffect ==
    /\ loop_pc = "effects"
    /\ agent_pos <= Len(plc_config)
    /\ LET plc    == plc_config[agent_pos]
           result == GetActuatorEffectResult(plc, plc_logics[plc.id])
           elem   == plc.element_id
       IN  /\ IF plc.type = "pump"
              THEN LET m == MergeEffect(pump_seen, main_pump_commands, elem, result)
                   IN  /\ pump_seen' = m.seen
                       /\ main_pump_commands' = m.commands
              ELSE UNCHANGED <<pump_seen, main_pump_commands>>
           /\ IF plc.type = "valve"
              THEN LET m == MergeEffect(valve_seen, main_valve_commands, elem, result)
                   IN  /\ valve_seen' = m.seen
                       /\ main_valve_commands' = m.commands
              ELSE UNCHANGED <<valve_seen, main_valve_commands>>
           /\ events' = Append(events, <<"get_actuator_effect", plc.id>>)
    /\ agent_pos' = agent_pos + 1
    /\ UNCHANGED <<loop_pc, total_steps, step, physical_state, plc_logics, en_open,
                   finished, current_time_s, phys_pump_commands, phys_valve_commands>>
    /\ UNCHANGED scadaVars

\* run_simulation.py 167 with physical_sim.py 103-105:
\* phys.apply_actuator_commands(pump_commands, valve_commands).  The method
\* takes one argument, commands; called with two it raises TypeError before
\* its body runs, and the engine keeps the commands it had.
LoopApply ==
    /\ loop_pc = "effects"
    /\ agent_pos > Len(plc_config)
    /\ events' = Append(events, <<"apply_actuator_commands">>)
    /\ loop_pc' = "type_error"
    /\ UNCHANGED <<total_steps, step, physical_state, agent_pos, plc_logics,
                   main_pump_commands, main_valve_commands, pump_seen, valve_seen,
                   en_open, finished, current_time_s, phys_pump_commands,
                   phys_valve_commands>>
    /\ UNCHANGED scadaVars

NextLoop ==
    \/ LoopExhausted /\ UNCHANGED <<selectVars, plcVars, parseVars, buildVars, extraVars>>
    \/ LoopStep /\ UNCHANGED <<selectVars, plcVars, parseVars, buildVars, extraVars>>
    \/ LoopBuildRequest /\ UNCHANGED <<selectVars, plcVars, parseVars, buildVars, extraVars>>
    \/ LoopHandle /\ UNCHANGED <<selectVars, plcVars, parseVars, buildVars, extraVars>>
    \/ LoopUpdate /\ UNCHANGED <<selectVars, plcVars, parseVars, buildVars, extraVars>>
    \/ LoopAggregate /\ UNCHANGED <<selectVars, plcVars, parseVars, buildVars, extraVars>>
    \/ LoopEffect /\ UNCHANGED <<selectVars, plcVars, parseVars, buildVars, extraVars>>
    \/ LoopApply /\ UNCHANGED <<selectVars, plcVars, parseVars, buildVars, extraVars>>

InitLoopSpec ==
    /\ InitLoop /\ InitSelectIdle /\ InitPlcIdle
    /\ InitParseIdle /\ InitBuildIdle /\ InitExtraIdle

SpecLoop == InitLoopSpec /\ [][NextLoop]_vars

----------------------------------------------------------------------------
(* ClosedLoopPhysicalSimulator (physical_sim.py), called as its methods are *)
(* declared.  The network holds two tanks, the pump P1 and the valve V1;    *)
(* time is counted in hydraulic steps.  What the hydraulic solver computes  *)
(* (levels, and the statuses its own controls set) is any value.            *)

EngineLinks == {"P1", "V1"}
LinkStatuses == [EngineLinks -> {0, 1}]

\* physical_sim.py 128 and 136: the EPANET status a command stands for
StatusOfCommand(c) == IF Upper(c) \in {"ON", "OPEN", "1", "TRUE"} THEN 1 ELSE 0

\* physical_sim.py 114-115: (commands or {}).get(key, {}) or {}
CommandsOf(commands, key) ==
    IF commands = None THEN EmptyDict
    ELSE IF key \in DOMAIN commands[1] THEN commands[1][key] ELSE EmptyDict

\* the arguments apply_actuator_commands is called with
CommandArgs ==
    { None,
      Some(EmptyDict),
      Some([k \in {"pumps"} |-> [e \in {"P1"} |-> "OPEN"]]),
      Some([k \in {"pumps", "valves"} |->
              IF k = "pumps" THEN [e \in {"P1"} |-> "OFF"] ELSE [e \in {"V1"} |-> "OPEN"]]),
      Some([k \in {"pumps", "valves"} |->
              IF k = "pumps" THEN [e \in {"P9"} |-> "ON"] ELSE [e \in {"V1"} |-> "CLOSED"]]) }

\* physical_sim.py 207-215 with 156-182 / 225-248: the snapshot
ReadState(t, levels, statuses) ==
    [time |-> t, tanks |-> levels,
     pumps |-> [k \in {"P1"} |-> IF statuses["P1"] = 1 THEN "ON" ELSE "OFF"],
     valves |-> [k \in {"V1"} |-> IF statuses["V1"] = 1 THEN "OPEN" ELSE "CLOSED"]]

\* a bug: step does not look at the engine handle
StepOutcomeUnchecked(is_finished, is_open) ==
    IF is_finished THEN "null" ELSE "snapshot"

\* physical_sim.py 143-146 and 192: what step returns or raises
StepOutcome(is_finished, is_open) ==
    IF is_finished THEN "null"
    ELSE IF ~is_open THEN "runtime_error"
    ELSE "snapshot"

\* physical_sim.py 120-121: what apply_actuator_commands returns or raises
ApplyOutcome(is_open) == IF ~is_open THEN "runtime_error" ELSE "ok"

\* physical_sim.py 22-51: the engine as constructed
InitEngine ==
    /\ en_duration \in 0..MaxDuration
    /\ en_time = 0
    /\ en_link_status = <<>>
    /\ en_call = "none"
    /\ en_outcome = "none"
    /\ prev_call = "none"
    /\ prev_outcome = "none"
    /\ ever_reset = FALSE

\* physical_sim.py 90-101, with _open_engine (65-88); the document of the
\* network is taken to exist
EngineReset ==
    /\ \E statuses \in LinkStatuses, levels \in [EngineTanks -> Levels] :
          /\ en_link_status' = statuses
          /\ physical_state' = Some(ReadState(0, levels, statuses))
    /\ en_open' = TRUE
    /\ en_time' = 0
    /\ current_time_s' = 0
    /\ finished' = FALSE
    /\ phys_pump_commands' = EmptyDict
    /\ phys_valve_commands' = EmptyDict
    /\ ever_reset' = TRUE
    /\ prev_call' = en_call /\ prev_outcome' = en_outcome
    /\ en_call' = "reset" /\ en_outcome' = "snapshot"
    /\ UNCHANGED en_duration

\* physical_sim.py 103-137: the commands are stored, then the handle is
\* looked at, then the statuses of the links the engine knows are written,
\* pumps first
EngineApply ==
    /\ \E commands \in CommandArgs :
          LET pumps  == CommandsOf(commands, "pumps")
              valves == CommandsOf(commands, "valves")
          IN  /\ phys_pump_commands' = pumps
              /\ phys_valve_commands' = valves
              /\ en_link_status' =
                    IF ~en_open THEN en_link_status
                    ELSE [l \in DOMAIN en_link_status |->
                            IF l \in DOMAIN valves THEN StatusOfCommand(valves[l])
                            ELSE IF l \in DOMAIN pumps THEN StatusOfCommand(pumps[l])
                            ELSE en_link_status[l]]
    /\ prev_call' = en_call /\ prev_outcome' = en_outcome
    /\ en_call' = "apply" /\ en_outcome' = ApplyOutcome(en_open)
    /\ UNCHANGED <<en_open, en_time, current_time_s, finished, physical_state,
                   ever_reset, en_duration>>

\* physical_sim.py 139-192: ENrunH gives the time and solves the step,
\* ENnextH gives the length of the next one, 0 at the end of the duration;
\* at the end the engine marks itself finished and closes itself
EngineStep ==
    /\ prev_call' = en_call /\ prev_outcome' = en_outcome
    /\ en_call' = "step" /\ en_outcome' = StepOutcome(finished, en_open)
    /\ IF StepOutcome(finished, en_open) # "snapshot"
       THEN UNCHANGED <<en_open, en_time, current_time_s, finished, physical_state,
                        en_link_status>>
       ELSE \E statuses \in LinkStatuses, levels \in [EngineTanks -> Levels] :
               LET t     == en_time
                   tstep == IF t >= en_duration THEN 0 ELSE 1
                   done  == tstep <= 0 \/ t >= en_duration
               IN  /\ current_time_s' = t
                   /\ physical_state' = Some(ReadState(t, levels, statuses))
                   /\ en_time' = t + tstep
                   /\ finished' = done
                   /\ en_open' = ~done
                   /\ en_link_status' = IF done THEN <<>> ELSE statuses
    /\ UNCHANGED <<phys_pump_commands, phys_valve_commands, ever_reset, en_duration>>

\* physical_sim.py 194-205
EngineClose ==
    /\ en_open' = FALSE
    /\ en_link_status' = <<>>
    /\ prev_call' = en_call /\ prev_outcome' = en_outcome
    /\ en_call' = "close" /\ en_outcome' = "ok"
    /\ UNCHANGED <<en_time, current_time_s, finished, physical_state,
                   phys_pump_commands, phys_valve_commands, ever_reset, en_duration>>

\* the variables of the loop that the engine's methods leave alone
loopOnlyVars == <<loop_pc, total_steps, step, agent_pos, plc_logics, main_pump_commands,
                  main_valve_commands, pump_seen, valve_seen, events>>

NextEngine ==
    \/ EngineReset /\ UNCHANGED <<scadaVars, selectVars, plcVars, parseVars, buildVars,
                                  loopOnlyVars, equivVars, orderVars>>
    \/ EngineApply /\ UNCHANGED <<scadaVars, selectVars, plcVars, parseVars, buildVars,
                                  loopOnlyVars, equivVars, orderVars>>
    \/ EngineStep /\ UNCHANGED <<scadaVars, selectVars, plcVars, parseVars, buildVars,
                                 loopOnlyVars, equivVars, orderVars>>
    \/ EngineClose /\ UNCHANGED <<scadaVars, selectVars, plcVars, parseVars, buildVars,
                                  loopOnlyVars, equivVars, orderVars>>

InitEngineSpec ==
    /\ InitScadaIdle /\ InitSelectIdle /\ InitPlcIdle /\ InitParseIdle /\ InitBuildIdle
    /\ InitLoopIdle /\ InitEngine /\ InitEquivIdle /\ InitOrderIdle

SpecEngine == InitEngineSpec /\ [][NextEngine]_vars

----------------------------------------------------------------------------
(* _dispatch_actuator_logic (scada_node.py 132-183) applied, in one state   *)
(* of the coordinator and to one observation, to an agent under a legacy    *)
(* mode and to the same agent under the list of the one rule the mode       *)
(* stands for.                                                              *)

LegacyModes == {"open_if_below", "close_if_below", "open_if_above", "close_if_above"}

\* the rule a legacy mode and its threshold stand for, with priority 0
ModeRule(mode, threshold) ==
    Rule("T1",
         IF mode \in {"open_if_below", "close_if_below"} THEN "BELOW" ELSE "ABOVE",
         threshold,
         IF mode \in {"open_if_below", "open_if_above"} THEN "OPEN" ELSE "CLOSED",
         0, 0)

\* the element of each type, and the commands the coordinator may hold for it
ElementOfType(type) == IF type = "pump" THEN "P1" ELSE "V1"
LastCommands(elem) == {EmptyDict} \cup {[e \in {elem} |-> c] : c \in {"OPEN", "CLOSED"}}

\* the coordinator holds any cache and any last command for the element;
\* the roster holds the agent twice, under the legacy mode and under the rule
InitEquiv ==
    /\ \E mode \in LegacyModes, threshold \in 0..MaxThreshold, type \in {"pump", "valve"} :
          /\ plc_config =
                << Plc("PLC_A", ElementOfType(type), "actuator", type,
                       LegacyLogic(mode, "T1", threshold)),
                   Plc("PLC_A", ElementOfType(type), "actuator", type,
                       RuleListLogic(<< ModeRule(mode, threshold) >>)) >>
          /\ pump_commands \in (IF type = "pump" THEN LastCommands("P1") ELSE {EmptyDict})
          /\ valve_commands \in (IF type = "valve" THEN LastCommands("V1") ELSE {EmptyDict})
    /\ latest_sensors \in {EmptyDict} \cup {[n \in {"T1"} |-> l] : l \in Levels}
    /\ overrides = EmptyDict
    /\ pc = "pending"
    /\ \E obs \in ActuatorObs :
          request = Some([plc_id |-> Some("PLC_A"), role |-> Some("actuator"),
                          time |-> Some(0), observations |-> obs])
    /\ reply = None
    /\ cmd = None
    /\ legacy_cmd = None
    /\ rulelist_cmd = None

\* scada_node.py 45 / 56: cmd = self._dispatch_actuator_logic(cfg, observations),
\* for each of the two agents
EvaluateBoth ==
    /\ pc = "pending"
    /\ legacy_cmd' = Some(DispatchActuatorLogic(latest_sensors, pump_commands,
                              valve_commands, plc_config[1], request[1].observations))
    /\ rulelist_cmd' = Some(DispatchActuatorLogic(latest_sensors, pump_commands,
                              valve_commands, plc_config[2], request[1].observations))
    /\ pc' = "replied"
    /\ UNCHANGED <<plc_config, latest_sensors, pump_commands, valve_commands,
                   overrides, request, reply, cmd>>

NextEquiv ==
    EvaluateBoth /\ UNCHANGED <<selectVars, plcVars, parseVars, buildVars, loopVars,
                                engineVars, orderVars>>

InitEquivSpec ==
    /\ InitEquiv /\ InitSelectIdle /\ InitPlcIdle /\ InitParseIdle /\ InitBuildIdle
    /\ InitLoopIdle /\ InitEngineIdle /\ InitOrderIdle

SpecEquiv == InitEquivSpec /\ [][NextEquiv]_vars

----------------------------------------------------------------------------
(* The exchange of one step (run_simulation.py 118-122) with the agents'    *)
(* requests reaching the coordinator in any order, one request handled at a *)
(* time; two steps are run, the second from the state the first left.       *)

\* the coordinator's caches, as a record
Caches == [sensors |-> latest_sensors, pumps |-> pump_commands,
           valves |-> valve_commands, ov |-> overrides]

\* the snapshots of the steps: those of the network with T2 at its lowest
OrderSnapshots == {sn \in Snapshots : sn.tanks["T2"] = 0}

\* run_simulation.py 70-71 and 114: the coordinator and the agents as made,
\* and the first snapshot
InitOrder ==
    /\ InitScada
    /\ loop_pc = "first"
    /\ \E sn \in OrderSnapshots : physical_state = Some(sn)
    /\ plc_logics = [id \in {plc_config[i].id : i \in DOMAIN plc_config} |-> EmptyDict]
    /\ handled = {}
    /\ round_start = [sensors |-> EmptyDict, pumps |-> EmptyDict,
                      valves |-> EmptyDict, ov |-> EmptyDict]

\* run_simulation.py 120: build_request of any agent not yet served
OrderBuildRequest ==
    /\ loop_pc \in {"first", "second"} /\ pc = "idle"
    /\ \E i \in DOMAIN plc_config :
          /\ plc_config[i].id \notin handled
          /\ request' = Some(BuildRequest(plc_config[i], physical_state[1]))
    /\ pc' = "pending"
    /\ UNCHANGED <<plc_config, latest_sensors, pump_commands, valve_commands,
                   overrides, reply, cmd>>
    /\ UNCHANGED <<loop_pc, physical_state, plc_logics, handled, round_start>>

\* run_simulation.py 121: scada.handle_plc_request(request)
OrderHandle ==
    /\ loop_pc \in {"first", "second"}
    /\ HandlePlcRequest
    /\ UNCHANGED <<loop_pc, physical_state, plc_logics, handled, round_start>>

\* run_simulation.py 122: the agent stores the reply
OrderUpdate ==
    /\ loop_pc \in {"first", "second"} /\ pc = "replied"
    /\ plc_logics' = [plc_logics EXCEPT ![request[1].plc_id[1]] =
                        UpdateFromScadaReplyResult(@, reply)]
    /\ handled' = handled \cup {request[1].plc_id[1]}
    /\ pc' = "idle"
    /\ request' = None
    /\ reply' = None
    /\ cmd' = None
    /\ UNCHANGED <<plc_config, latest_sensors, pump_commands, valve_commands, overrides>>
    /\ UNCHANGED <<loop_pc, physical_state, round_start>>

\* run_simulation.py 112-114: every agent is served; the next step begins
\* with its own snapshot
OrderNextStep ==
    /\ loop_pc = "first" /\ pc = "idle"
    /\ handled = {plc_config[i].id : i \in DOMAIN plc_config}
    /\ \E sn \in OrderSnapshots : physical_state' = Some(sn)
    /\ round_start' = Caches
    /\ handled' = {}
    /\ loop_pc' = "second"
    /\ UNCHANGED plc_logics
    /\ UNCHANGED scadaVars

\* the variables of the loop and the engine that the exchange leaves alone
orderRestVars == <<total_steps, step, agent_pos, main_pump_commands, main_valve_commands,
                   pump_seen, valve_seen, en_open, finished, current_time_s,
                   phys_pump_commands, phys_valve_commands, events>>

NextOrder ==
    \/ OrderBuildRequest /\ UNCHANGED <<selectVars, plcVars, parseVars, buildVars,
                                        orderRestVars, engineVars, equivVars>>
    \/ OrderHandle /\ UNCHANGED <<selectVars, plcVars, parseVars, buildVars,
                                  orderRestVars, engineVars, equivVars>>
    \/ OrderUpdate /\ UNCHANGED <<selectVars, plcVars, parseVars, buildVars,
                                  orderRestVars, engineVars, equivVars>>
    \/ OrderNextStep /\ UNCHANGED <<selectVars, plcVars, parseVars, buildVars,
                                    orderRestVars, engineVars, equivVars>>

InitOrderSpec ==
    /\ InitOrder /\ InitSelectIdle /\ InitPlcIdle /\ InitParseIdle /\ InitBuildIdle
    /\ total_steps = 0 /\ step = 0 /\ agent_pos = 1
    /\ main_pump_commands = EmptyDict /\ main_valve_commands = EmptyDict
    /\ pump_seen = {} /\ valve_seen = {}
    /\ en_open = FALSE /\ finished = FALSE /\ current_time_s = 0
    /\ phys_pump_commands = EmptyDict /\ phys_valve_commands = EmptyDict
    /\ events = <<>>
    /\ InitEngineIdle /\ InitEquivIdle

SpecOrder == InitOrderSpec /\ [][NextOrder]_vars

----------------------------------------------------------------------------
(* What the claims speak of. *)

\* the condition of a rule holds at level lv
Fires(rule, lv) ==
    \/ rule.comparator = "BELOW" /\ lv < rule.threshold
    \/ rule.comparator = "ABOVE" /\ lv > rule.threshold

\* the rules of the drawn list whose condition holds at the drawn level
FiringRules == {i \in DOMAIN arg_rules : Fires(arg_rules[i], arg_level)}

\* i has the highest priority among the firing rules
TopPriority(i) ==
    \A j \in FiringRules : arg_rules[j].priority <= arg_rules[i].priority

\* the request being handled or just answered, and its reply
Req == request[1]
Rep == reply[1]

\* the request's plc_id is the id of an agent of the roster
Known(req) == \E i \in DOMAIN plc_config : Some(plc_config[i].id) = req.plc_id

\* the agent of the roster the request names
AgentOf(req) ==
    plc_config[CHOOSE i \in DOMAIN plc_config :
                 /\ Some(plc_config[i].id) = req.plc_id
                 /\ \A j \in DOMAIN plc_config :
                        Some(plc_config[j].id) = req.plc_id => i <= j]

\* the command recorded for an agent's element in the map of its type
RecordedCommand(pumps, valves, agent) ==
    IF agent.type = "pump" THEN DictGet(pumps, agent.element_id)
    ELSE IF agent.type = "valve" THEN DictGet(valves, agent.element_id)
    ELSE None

\* the command a reply carries under pump_command or valve_setting
CarriedCommand(rep) ==
    IF "pump_command" \in DOMAIN rep.responses THEN Some(rep.responses.pump_command)
    ELSE IF "valve_setting" \in DOMAIN rep.responses THEN Some(rep.responses.valve_setting)
    ELSE None

\* the key of a command in the responses, by the type of the element
CommandKey(type) == IF type = "pump" THEN "pump_command" ELSE "valve_setting"

\* no rule of the agent's group fires for this request: the level is the one
\* of the observation, else the cached one of the group's node; without a
\* level no rule is tested
NoRuleFires(sensors, agent, req) ==
    LET own == ObsGet(req.observations, "level")
        lv  == IF own # None THEN own ELSE DictGet(sensors, agent.logic.node_id[1])
    IN  \/ lv = None
        \/ \A i \in DOMAIN agent.logic.rules : ~Fires(agent.logic.rules[i], lv[1])

\* handle_plc_request is answering an actuator request of an agent that has
\* a rule group, and no rule of the group fires
NoSignalStep ==
    /\ pc = "pending" /\ pc' = "replied"
    /\ Known(Req)
    /\ Req.role = Some("actuator")
    /\ AgentOf(Req).logic.rules # <<>>
    /\ NoRuleFires(latest_sensors, AgentOf(Req), Req)

----------------------------------------------------------------------------
(* The claims. *)

\* C1: when at least one rule's condition holds, the action returned by
\* _select_rule_action is the action of a firing rule of maximal priority,
\* wherever that rule stands in the document.
C1_HighestPriorityWins ==
    (chosen_action # None /\ FiringRules # {}) =>
        \E i \in FiringRules :
            TopPriority(i) /\ chosen_action[1] = Some(arg_rules[i].action)

\* C1, the spec's scenario: OPEN with priority 1 declared first, CLOSED with
\* priority 2 on the same condition, level 1 below the threshold 2: CLOSED.
C1_Witness ==
    /\ arg_rules = << Rule("T1", "BELOW", 2, "OPEN", 1, 0),
                      Rule("T1", "BELOW", 2, "CLOSED", 2, 1) >>
    /\ arg_level = 1
    /\ chosen_action = Some(Some("CLOSED"))

\* C2: among the firing rules of highest priority the one with the largest
\* rule_index gives the action.
C2_TieBrokenByLaterRule ==
    chosen_action # None =>
        \A i \in FiringRules :
            ( /\ TopPriority(i)
              /\ \A j \in FiringRules :
                    arg_rules[j].priority = arg_rules[i].priority
                        => arg_rules[j].rule_index <= arg_rules[i].rule_index )
            => chosen_action[1] = Some(arg_rules[i].action)

\* C2: two firing rules of equal priority and different actions; the later wins.
C2_Witness ==
    /\ Len(arg_rules) = 2
    /\ FiringRules = {1, 2}
    /\ arg_rules[1].priority = arg_rules[2].priority
    /\ arg_rules[1].action = "CLOSED" /\ arg_rules[2].action = "OPEN"
    /\ chosen_action = Some(Some("OPEN"))

\* C3 as stated: in a step in which no rule of the agent's group fires, the
\* reply carries the command recorded for the element before the step and the
\* recorded command keeps its value.
C3_NoSignalKeepsCommand ==
    [][ NoSignalStep =>
          /\ CarriedCommand(reply'[1])
                = RecordedCommand(pump_commands, valve_commands, AgentOf(Req))
          /\ pump_commands' = pump_commands
          /\ valve_commands' = valve_commands ]_vars

\* C3 amended: in such a step of a pump or valve agent, a command recorded
\* before the step keeps its value and is the one the reply carries, unless
\* the override is active for the agent and the reply carries override_action
\* instead; when no command was recorded, the normalized physical status of
\* the request is evaluated, returned and recorded.
C3_NoSignalKeepsIssuedCommand ==
    [][ (NoSignalStep /\ AgentOf(Req).type \in {"pump", "valve"}) =>
          LET agent == AgentOf(Req)
              before == RecordedCommand(pump_commands, valve_commands, agent)
              after  == RecordedCommand(pump_commands', valve_commands', agent)
              status == NormalizeStatus(ObsGet(Req.observations, "current_status"))
              resp   == reply'[1].responses
          IN  /\ before # None => after = before /\ cmd' = before
              /\ before = None => cmd' = status /\ after = status
              /\ IF agent.id \in DOMAIN overrides'
                 THEN resp = [k \in {"override_action"} |-> "OFF"]
                 ELSE CarriedCommand(reply'[1]) = cmd'
              /\ \A e \in DOMAIN pump_commands' \cup DOMAIN valve_commands' :
                    e # agent.element_id =>
                        /\ DictGet(pump_commands', e) = DictGet(pump_commands, e)
                        /\ DictGet(valve_commands', e) = DictGet(valve_commands, e) ]_vars

\* C3: the pump was commanded OPEN, the request reports it OFF at a level at
\* which no rule fires, and the reply still carries OPEN.
C3_Witness ==
    /\ pc = "replied"
    /\ Req.plc_id = Some("PLC_PUMP_1") /\ Req.role = Some("actuator")
    /\ ObsGet(Req.observations, "level") = Some(1)
    /\ ObsGet(Req.observations, "current_status") = Some("OFF")
    /\ DictGet(pump_commands, "P1") = Some("OPEN")
    /\ CarriedCommand(Rep) = Some("OPEN")

\* C4: an actuator request of PLC_PUMP_1 is answered with an override exactly
\* when 10000 < time < 15000, and the override is recorded exactly then,
\* whatever was handled before.
C4_OverrideWindowExact ==
    pc = "replied" =>
        LET t     == TimeOf(Req)
            inwin == 10000 < t /\ t < 15000
        IN  /\ ("PLC_PUMP_1" \in DOMAIN overrides) <=> inwin
            /\ (Req.plc_id = Some("PLC_PUMP_1") /\ Req.role = Some("actuator"))
                  => (("override_action" \in DOMAIN Rep.responses) <=> inwin)

\* C4: the override applied at time 10001.
C4_Witness ==
    /\ pc = "replied"
    /\ Req.plc_id = Some("PLC_PUMP_1") /\ Req.role = Some("actuator")
    /\ Req.time = Some(10001)
    /\ "override_action" \in DOMAIN Rep.responses

\* C5: the reply to an actuator request of a known agent carries the
\* override_action alone when an override is active for the agent; otherwise
\* the evaluated command, if any, under pump_command for a pump and
\* valve_setting for a valve, and no override_action; a reply to any agent
\* but PLC_PUMP_1 never carries override_action.
C5_OverrideReplacesCommand ==
    (pc = "replied" /\ Known(Req)) =>
        LET agent == AgentOf(Req)
            resp  == Rep.responses
        IN  /\ Req.role = Some("actuator") =>
                  IF agent.id \in DOMAIN overrides
                  THEN resp = [k \in {"override_action"} |-> overrides[agent.id]]
                  ELSE IF cmd # None
                  THEN resp = [k \in {CommandKey(agent.type)} |-> cmd[1]]
                  ELSE resp = EmptyDict
            /\ agent.id # "PLC_PUMP_1" => "override_action" \notin DOMAIN resp

\* C5: an override answered in place of an evaluated command.
C5_Witness ==
    /\ pc = "replied"
    /\ Req.plc_id = Some("PLC_PUMP_1") /\ Req.role = Some("actuator")
    /\ cmd = Some("OPEN")
    /\ Rep.responses = [k \in {"override_action"} |-> "OFF"]

\* C6 as stated: get_actuator_effect returns the empty map for a sensor-role
\* agent; for an actuator-role agent the override_action of the stored reply
\* whenever there is one, else the command under the key of its type, else
\* the empty map.
C6_EffectAsClaimed ==
    effect # None =>
        LET responses == IF "responses" \in DOMAIN last_reply
                         THEN last_reply.responses ELSE EmptyDict
            element   == {plc_cfg.element_id}
            key       == IF plc_cfg.type = "pump" THEN {"pump_command"}
                         ELSE IF plc_cfg.type = "valve" THEN {"valve_setting"}
                         ELSE {}
        IN  effect[1] =
                IF plc_cfg.role # "actuator" THEN EmptyDict
                ELSE IF "override_action" \in DOMAIN responses
                THEN [e \in element |-> responses.override_action]
                ELSE IF key \cap DOMAIN responses # {}
                THEN [e \in element |-> responses[CHOOSE k \in key : TRUE]]
                ELSE EmptyDict

\* the reply get_actuator_effect reads after update_from_scada_reply(r)
StoredForm(r) == IF r = None \/ DOMAIN r[1] = {} THEN EmptyDict ELSE r[1]

\* the keys of the responses of a reply
ResponseKeys(rep) ==
    IF "responses" \in DOMAIN rep THEN DOMAIN rep.responses ELSE {}

\* C7: the effect read is that of the most recent reply alone: empty before
\* any reply, empty when the most recent reply carries none of the keys, and
\* in no case dependent on what an earlier reply carried.
C7_EffectOfLatestReplyOnly ==
    effect # None =>
        /\ delivered = None => effect[1] = EmptyDict
        /\ delivered # None =>
              /\ effect[1] = GetActuatorEffectResult(plc_cfg, StoredForm(delivered[1]))
              /\ ResponseKeys(StoredForm(delivered[1])) = {} => effect[1] = EmptyDict
              /\ last_reply = StoredForm(delivered[1])

\* C7: a pump agent held a reply with a pump_command, was then handed None,
\* and its effect is empty.
C7_Witness ==
    /\ plc_cfg = PlcPump
    /\ "pump_command" \in ResponseKeys(prev_reply)
    /\ delivered = Some(None)
    /\ effect = Some(EmptyDict)

\* C8: a request whose plc_id is no agent's id is answered by the reply with
\* error unknown_plc and empty responses, whatever its role and observations.
C8_UnknownPlc ==
    (pc = "replied" /\ \A i \in DOMAIN plc_config : Some(plc_config[i].id) # Req.plc_id)
        => Rep = [plc_id |-> Req.plc_id, responses |-> EmptyDict, error |-> "unknown_plc"]

\* C8: an actuator request of the unknown PLC_X answered with unknown_plc.
C8_Witness ==
    /\ pc = "replied"
    /\ Req.plc_id = Some("PLC_X") /\ Req.role = Some("actuator")
    /\ "level" \in DOMAIN Req.observations
    /\ Rep.error = "unknown_plc"

\* C9: a request of a known agent whose role is neither sensor nor actuator
\* is answered by the reply with error unknown_role and empty responses.
C9_UnknownRole ==
    (pc = "replied" /\ Known(Req) /\ Req.role \notin {Some("sensor"), Some("actuator")})
        => Rep = [plc_id |-> Req.plc_id, responses |-> EmptyDict, error |-> "unknown_role"]

\* C9: PLC_PUMP_1 asking in the role engineer.
C9_Witness ==
    /\ pc = "replied"
    /\ Req.plc_id = Some("PLC_PUMP_1") /\ Req.role = Some("engineer")
    /\ Rep.error = "unknown_role"

\* C10 as stated: a sensor-role request of a known agent that carries level
\* (or, without level, tank_level) leaves that value in the cache under the
\* agent's element, whether the element is a tank, a junction or a
\* reservoir, and is answered with empty responses and no error.
C10_SensorLevelCached ==
    ( /\ pc = "replied" /\ Known(Req) /\ Req.role = Some("sensor")
      /\ AgentOf(Req).type \in {"tank", "junction", "reservoir"}
      /\ {"level", "tank_level"} \cap DOMAIN Req.observations # {} )
        => LET own == ObsGet(Req.observations, "level")
               lv  == IF own # None THEN own ELSE ObsGet(Req.observations, "tank_level")
           IN  /\ DictGet(latest_sensors, AgentOf(Req).element_id) = lv
               /\ Rep = [plc_id |-> Req.plc_id, responses |-> EmptyDict]

\* handle_plc_request is answering an actuator request of a pump or valve
\* agent that has a rule group
RuleStep ==
    /\ pc = "pending" /\ pc' = "replied"
    /\ Known(Req)
    /\ Req.role = Some("actuator")
    /\ AgentOf(Req).type \in {"pump", "valve"}
    /\ AgentOf(Req).logic.rules # <<>>

\* the action the rules give at a level: that of the firing rule that is
\* greatest by priority and then by rule_index; dflt when no rule fires
ActionAt(rules, lv, dflt) ==
    LET firing == {i \in DOMAIN rules : Fires(rules[i], lv)}
    IN  IF firing = {} THEN dflt
        ELSE LET top == CHOOSE i \in firing : \A j \in firing :
                            \/ rules[j].priority < rules[i].priority
                            \/ /\ rules[j].priority = rules[i].priority
                               /\ rules[j].rule_index <= rules[i].rule_index
             IN  Some(rules[top].action)

\* the spellings of the two states of an element in a reported status
ActiveSpellings   == {"ON", "OPEN", "1", "true"}
InactiveSpellings == {"OFF", "CLOSED", "0", "false"}

\* the canonical value of a reported status
Canonical(status) ==
    IF status = None THEN None
    ELSE IF status[1] \in ActiveSpellings THEN Some("OPEN")
    ELSE IF status[1] \in InactiveSpellings THEN Some("CLOSED")
    ELSE None

\* C11: the rules are evaluated at the level of the observation when it has
\* one, whatever the cache holds; else at the cached level of the group's
\* node; with neither, the command is the fallback (the recorded command,
\* else the reported status) and the reply carries no error.
C11_LevelResolutionOrder ==
    [][ RuleStep =>
          LET agent  == AgentOf(Req)
              own    == ObsGet(Req.observations, "level")
              cached == DictGet(latest_sensors, agent.logic.node_id[1])
              before == RecordedCommand(pump_commands, valve_commands, agent)
              fb     == IF before # None THEN before
                        ELSE Canonical(ObsGet(Req.observations, "current_status"))
          IN  /\ own # None => cmd' = ActionAt(agent.logic.rules, own[1], fb)
              /\ (own = None /\ cached # None)
                    => cmd' = ActionAt(agent.logic.rules, cached[1], fb)
              /\ (own = None /\ cached = None) => cmd' = fb
              /\ "error" \notin DOMAIN reply'[1] ]_vars

\* C11: the observation says level 0 while the cache holds 2 for T1; the pump
\* is commanded OPEN (the rule below 1), not CLOSED (the rule above 1).
C11_Witness ==
    /\ pc = "replied"
    /\ Req.plc_id = Some("PLC_PUMP_1") /\ Req.role = Some("actuator")
    /\ ObsGet(Req.observations, "level") = Some(0)
    /\ DictGet(latest_sensors, "T1") = Some(2)
    /\ cmd = Some("OPEN")

\* C12: in a step in which no rule fires the command is the one recorded
\* for the element when there is one, whatever status the request reports;
\* else it is the reported status, ON/OPEN/1/true read as OPEN and
\* OFF/CLOSED/0/false as CLOSED.
C12_FallbackLastCommandThenStatus ==
    [][ (NoSignalStep /\ AgentOf(Req).type \in {"pump", "valve"}) =>
          LET before == RecordedCommand(pump_commands, valve_commands, AgentOf(Req))
              status == ObsGet(Req.observations, "current_status")
          IN  /\ before # None => cmd' = before
              /\ (before = None /\ status # None /\ status[1] \in ActiveSpellings)
                    => cmd' = Some("OPEN")
              /\ (before = None /\ status # None /\ status[1] \in InactiveSpellings)
                    => cmd' = Some("CLOSED")
              /\ (before = None /\ status = None) => cmd' = None ]_vars

\* C12: the valve is reported as 0 without any level known, and the command
\* is still OPEN, the one recorded for it.
C12_Witness ==
    /\ pc = "replied"
    /\ Req.plc_id = Some("PLC_V1") /\ Req.role = Some("actuator")
    /\ ObsGet(Req.observations, "level") = None
    /\ DictGet(latest_sensors, "T1") = None
    /\ ObsGet(Req.observations, "current_status") = Some("0")
    /\ DictGet(valve_commands, "V1") = Some("OPEN")
    /\ cmd = Some("OPEN")

\* the first [CONTROLS] header of the document and the first header of
\* another section after it (one past the last line when there is none)
ControlsStart ==
    LET hs == {k \in DOMAIN inp_lines :
                 inp_lines[k] # <<>> /\ IsControlsHeader(inp_lines[k])}
    IN  IF hs = {} THEN Len(inp_lines) + 1
        ELSE CHOOSE k \in hs : \A j \in hs : k <= j
ControlsEnd ==
    LET es == {k \in DOMAIN inp_lines :
                 /\ k > ControlsStart /\ inp_lines[k] # <<>>
                 /\ inp_lines[k][1][1] = "[" /\ ~IsControlsHeader(inp_lines[k])}
    IN  IF es = {} THEN Len(inp_lines) + 1
        ELSE CHOOSE k \in es : \A j \in es : k <= j
InControlSection(k) == ControlsStart < k /\ k < ControlsEnd

\* a word written with the characters of a class only
WordOf(w, class) == w # <<>> /\ \A i \in DOMAIN w : w[i] \in class

\* the line is a rule of the grammar and nothing more:
\* LINK <link> OPEN|CLOSED IF NODE <node> BELOW|ABOVE <threshold> [PRIORITY <int>]
WholeRule(line) ==
    /\ Len(line) \in {8, 10}
    /\ UpperWord(line[1]) = W_LINK
    /\ UpperWord(line[3]) \in {W_OPEN, W_CLOSED}
    /\ UpperWord(line[4]) = W_IF
    /\ UpperWord(line[5]) = W_NODE
    /\ UpperWord(line[7]) \in {W_BELOW, W_ABOVE}
    /\ WordOf(line[8], NumberChars)
    /\ Len(line) = 10 => UpperWord(line[9]) = W_PRIORITY /\ WordOf(line[10], Digits)

\* the positions, in document order, of the lines of the control section
\* that satisfy a condition
SectionLines(Cond(_)) ==
    SelectSeq([k \in 1..Len(inp_lines) |-> k],
              LAMBDA k : InControlSection(k) /\ Cond(inp_lines[k]))

\* the line has a PRIORITY word
HasPriorityClause(line) == \E i \in DOMAIN line : UpperWord(line[i]) = W_PRIORITY

\* C13 as stated: the rules returned are, in order, those of the lines of
\* the control section that are whole rules of the grammar, one each; no
\* other line gives a rule.
C13_OnlyWholeRules ==
    parse_pc = "done" =>
        LET whole == SectionLines(WholeRule)
        IN  /\ Len(controls) = Len(whole)
            /\ \A i \in DOMAIN controls :
                  /\ controls[i].link_id = inp_lines[whole[i]][2]
                  /\ controls[i].node_id = inp_lines[whole[i]][6]

\* C14: in the rules returned, the rule_index of the i-th rule is i - 1, the
\* number of lines matched before its line, however many lines were skipped;
\* rule_index grows strictly; a rule of a line without a PRIORITY word has
\* priority 0.
C14_RuleIndexCountsMatches ==
    parse_pc = "done" =>
        LET matched == SectionLines(LAMBDA line : PatternMatch(line) # None)
        IN  /\ Len(controls) = Len(matched)
            /\ \A i \in DOMAIN controls :
                  /\ controls[i].rule_index = i - 1
                  /\ \A j \in DOMAIN controls :
                        i < j => controls[i].rule_index < controls[j].rule_index
                  /\ ~HasPriorityClause(inp_lines[matched[i]])
                        => controls[i].priority = 0

\* C14: two rules with a non-matching line between them; the second has
\* rule_index 1, the first, written without PRIORITY, has priority 0.
C14_Witness ==
    /\ parse_pc = "done"
    /\ inp_lines = <<LineControls, LinePlain, LineNoIf, LinePriority>>
    /\ Len(controls) = 2
    /\ controls[1].rule_index = 0 /\ controls[1].priority = 0
    /\ controls[2].rule_index = 1 /\ controls[2].priority = 10

\* C15 as stated: the parse of an existing document never fails; the only
\* failure is the not-found error of a missing document.
C15_OnlyNotFoundFails ==
    /\ parse_pc = "value_error" => ~inp_exists
    /\ parse_pc = "not_found" => ~inp_exists

\* the links and the nodes the rules of the document refer to
RuleLinks == {controls[i].link_id : i \in DOMAIN controls}
RuleNodes == {controls[i].node_id : i \in DOMAIN controls}

\* the positions of the roster that hold an actuator, or a sensor, of an element
ActuatorsOf(link_id) ==
    {i \in DOMAIN runtime_plcs :
        runtime_plcs[i].role = "actuator" /\ runtime_plcs[i].element_id = link_id}
SensorsOf(node_id) ==
    {i \in DOMAIN runtime_plcs :
        runtime_plcs[i].role = "sensor" /\ runtime_plcs[i].element_id = node_id}

\* a sequence without its repetitions, each member where it first stands
RECURSIVE FirstSeen(_)
FirstSeen(q) ==
    IF q = <<>> THEN <<>>
    ELSE LET before == FirstSeen(SubSeq(q, 1, Len(q) - 1))
         IN  IF \E i \in DOMAIN before : before[i] = q[Len(q)] THEN before
             ELSE Append(before, q[Len(q)])

\* the element ids of the agents of a role, in the order of the roster
ElementsOfRole(role) ==
    LET sel == SelectSeq(runtime_plcs, LAMBDA a : a.role = role)
    IN  [i \in DOMAIN sel |-> sel[i].element_id]

\* C16: a built roster has exactly one actuator for each link the rules
\* refer to and none for any other element, so no two actuators share an
\* element_id; the rule list of an actuator is the rules of its link in
\* document order; no node has more than one sensor agent.
C16_OneActuatorPerLink ==
    build_pc = "built" =>
        /\ \A l \in RuleLinks : Cardinality(ActuatorsOf(l)) = 1
        /\ \A i \in DOMAIN runtime_plcs :
              runtime_plcs[i].role = "actuator" =>
                /\ runtime_plcs[i].element_id \in RuleLinks
                /\ \A j \in DOMAIN runtime_plcs :
                      ( /\ runtime_plcs[j].role = "actuator"
                        /\ runtime_plcs[j].element_id = runtime_plcs[i].element_id )
                      => j = i
                /\ LET own == SelectSeq(controls,
                                LAMBDA c : c.link_id = runtime_plcs[i].element_id)
                   IN  /\ Len(runtime_plcs[i].logic.rules) = Len(own)
                       /\ \A k \in DOMAIN own :
                             runtime_plcs[i].logic.rules[k].rule_index = own[k].rule_index
        /\ \A n \in RuleNodes : Cardinality(SensorsOf(n)) <= 1

\* C16: the rules of P1 stand around a rule of V1 and speak of two nodes;
\* the roster has one actuator for P1 holding rules 0 and 2, one for V1, and
\* one sensor for each of T1 and T2.
C16_Witness ==
    /\ build_pc = "built"
    /\ inp_lines = <<LineControls, LinePlain, LinePriority, LinePumpT2>>
    /\ Len(runtime_plcs) = 4
    /\ runtime_plcs[1].element_id = <<"P", "1">>
    /\ Len(runtime_plcs[1].logic.rules) = 2
    /\ runtime_plcs[1].logic.rules[2].rule_index = 2
    /\ runtime_plcs[2].element_id = <<"V", "1">>
    /\ Cardinality(SensorsOf(<<"T", "1">>)) = 1
    /\ Cardinality(SensorsOf(<<"T", "2">>)) = 1

\* C17 as stated: a node of the rules for which the user wrote a sensor
\* entry has no synthesized PLC_SENSOR_ agent in the built roster, and every
\* other node of the rules has exactly one.
C17_SensorOnlyIfUncovered ==
    build_pc = "built" =>
        \A n \in RuleNodes :
            LET covered == \E i \in DOMAIN user_plc_config :
                              /\ user_plc_config[i].element_id = n
                              /\ user_plc_config[i].role = Some("sensor")
                synth   == {i \in DOMAIN runtime_plcs :
                              runtime_plcs[i].id = W_PLC_SENSOR_ \o n}
            IN  IF covered THEN synth = {} ELSE Cardinality(synth) = 1

\* C18 as stated: in a built roster the actuators stand in the order in
\* which their links are first met in the rules, then the sensors in the
\* order in which their nodes are first met, and the address of a sensor is
\* 10.0.1.(10 + the number of agents standing before it).
C18_FirstSeenOrder ==
    build_pc = "built" =>
        /\ ElementsOfRole("actuator")
              = FirstSeen([i \in DOMAIN controls |-> controls[i].link_id])
        /\ ElementsOfRole("sensor")
              = FirstSeen([i \in DOMAIN controls |-> controls[i].node_id])
        /\ \A i \in DOMAIN runtime_plcs :
              runtime_plcs[i].role = "sensor"
                  => runtime_plcs[i].ip = W_SensorNet \o StrOf(i - 1 + 10)

\* C19 as stated: the second build of the same user roster and document
\* returns the roster the first build returned.
C19_SameRosterTwice ==
    (build_pc = "built" /\ build_no = 2) => runtime_plcs = first_plcs

\* the calls of one step in the order the loop is to make them: the
\* snapshot, the three calls of each agent in turn, the effect of each agent,
\* the application of the merged commands
RECURSIVE ExchangeCalls(_)
ExchangeCalls(n) ==
    IF n = 0 THEN <<>>
    ELSE ExchangeCalls(n - 1)
            \o << <<"build_request", plc_config[n].id>>,
                  <<"handle_plc_request", plc_config[n].id>>,
                  <<"update_from_scada_reply", plc_config[n].id>> >>
StepCalls ==
    << <<"step">> >> \o ExchangeCalls(Len(plc_config))
        \o [i \in DOMAIN plc_config |-> <<"get_actuator_effect", plc_config[i].id>>]
        \o << <<"apply_actuator_commands">> >>

IsPrefix(a, b) == Len(a) <= Len(b) /\ a = SubSeq(b, 1, Len(a))

\* C20 as stated: the calls of a step are made in the order snapshot, then
\* build_request, handle_plc_request, update_from_scada_reply for each agent,
\* then get_actuator_effect for each agent, then apply_actuator_commands,
\* and once that call is made the engine holds the merged commands.
C20_StepOrderAndApply ==
    /\ IsPrefix(events, StepCalls)
    /\ (events # <<>> /\ events[Len(events)] = <<"apply_actuator_commands">>)
          => /\ phys_pump_commands = main_pump_commands
             /\ phys_valve_commands = main_valve_commands

\* the effect of the agent at position i of the roster, from the reply it holds
EffectAt(i) == GetActuatorEffectResult(plc_config[i], plc_logics[plc_config[i].id])

\* the agents of a type, among those the merge has visited, whose effect
\* carries a command for the element
WritersOf(type, elem) ==
    {i \in 1..(agent_pos - 1) : plc_config[i].type = type /\ elem \in DOMAIN EffectAt(i)}

\* the command the first of them wrote
FirstWritten(type, elem) ==
    LET w == WritersOf(type, elem)
    IN  IF w = {} THEN None
        ELSE Some(EffectAt(CHOOSE i \in w : \A j \in w : i <= j)[elem])

\* C21: during the merge of a step, the merged command of every element is
\* the one of the first agent (in roster order) that wrote an effect for it,
\* for pumps and for valves; a later agent's effect never replaces it.
C21_FirstWriterWins ==
    loop_pc \in {"effects", "type_error"} =>
        \A i \in DOMAIN plc_config :
            LET elem == plc_config[i].element_id
            IN  /\ DictGet(main_pump_commands, elem) = FirstWritten("pump", elem)
                /\ DictGet(main_valve_commands, elem) = FirstWritten("valve", elem)

\* C21: the merge is over, two agents wrote different commands for the pump
\* P1 and two wrote different commands for the valve V1
C21_Witness ==
    /\ loop_pc = "effects"
    /\ agent_pos > Len(plc_config)
    /\ \E i, j \in DOMAIN plc_config :
          /\ i < j
          /\ plc_config[i].type = "pump" /\ plc_config[j].type = "pump"
          /\ plc_config[i].element_id = plc_config[j].element_id
          /\ EffectAt(i) # EffectAt(j) /\ EffectAt(j) # EmptyDict
          /\ main_pump_commands = EffectAt(i)
    /\ \E i, j \in DOMAIN plc_config :
          /\ i < j
          /\ plc_config[i].type = "valve" /\ plc_config[j].type = "valve"
          /\ plc_config[i].element_id = plc_config[j].element_id
          /\ EffectAt(i) # EffectAt(j) /\ EffectAt(j) # EmptyDict
          /\ main_valve_commands = EffectAt(i)

\* C22: on an engine that was never reset, step and apply_actuator_commands
\* end with the fatal error (RuntimeError) and neither returns a snapshot nor
\* accepts the commands.
C22_ResetRequired ==
    (~ever_reset /\ en_call \in {"step", "apply"}) => en_outcome = "runtime_error"

\* C22: both calls have been made on an engine that was never reset
C22_Witness ==
    /\ ~ever_reset
    /\ en_call = "step" /\ en_outcome = "runtime_error"
    /\ prev_call = "apply" /\ prev_outcome = "runtime_error"

\* C25 as stated: after reset, an apply_actuator_commands made right after a
\* step that returned a snapshot never fails, the last snapshot included, and
\* step returns null only when the engine had finished before the call.
C25_ApplyAfterSnapshotSucceeds ==
    /\ (ever_reset /\ en_call = "apply" /\ prev_call = "step" /\ prev_outcome = "snapshot")
          => en_outcome = "ok"
    /\ (en_call = "step" /\ en_outcome = "null") => finished

\* the request is one the agent it names builds: its role is the agent's
FromAgent(req) == Known(req) /\ req.role = Some(AgentOf(req).role)

\* C23 as stated: an actuator-role request of an agent of the roster, an
\* agent of the generic link type included, is answered without an error
\* field, and unknown_role is returned only for a role that is neither
\* sensor nor actuator.
C23_ActuatorAnsweredWithoutError ==
    (pc = "replied" /\ FromAgent(Req)) =>
        /\ Req.role = Some("actuator") => "error" \notin DOMAIN Rep
        /\ ("error" \in DOMAIN Rep /\ Rep.error = "unknown_role")
              => Req.role \notin {Some("sensor"), Some("actuator")}

\* C24: for every level (in the observation, in the cache, or absent),
\* threshold, last command and reported status, the command evaluated for an
\* agent under a legacy mode with threshold T is the command evaluated for
\* the agent under the single rule (BELOW or ABOVE, T, OPEN or CLOSED,
\* priority 0).
C24_LegacyIsOneRuleList ==
    pc = "replied" => legacy_cmd = rulelist_cmd

\* C24: the observation carries no level, the level of the cache makes the
\* mode's condition hold, and both agents get the mode's action against a
\* contrary last command of the valve
C24_Witness ==
    /\ pc = "replied"
    /\ legacy_cmd # None /\ rulelist_cmd # None
    /\ ObsGet(Req.observations, "level") = None
    /\ latest_sensors # EmptyDict
    /\ valve_commands # EmptyDict
    /\ legacy_cmd[1] # None
    /\ legacy_cmd[1] # Some(valve_commands["V1"])

\* handle_plc_request is answering an actuator request of the agent the demo
\* override names, at a time inside the window
OverrideStep ==
    /\ pc = "pending" /\ pc' = "replied"
    /\ Known(Req)
    /\ Req.plc_id = Some(DemoPlc) /\ Req.role = Some("actuator")
    /\ DemoPlc \in DOMAIN overrides'

\* C27: while the override is active for an agent, the command recorded for
\* its element is the one just evaluated (the action of the winning rule at
\* the level of the observation, else the fallback) and never the forced
\* action OFF, although the reply carries OFF; and when, the window closed,
\* no rule fires, the command is the recorded one, whatever status the pump
\* reports.
C27_OverrideNeverRecorded ==
    [][ /\ OverrideStep =>
              LET agent  == AgentOf(Req)
                  own    == ObsGet(Req.observations, "level")
                  before == RecordedCommand(pump_commands, valve_commands, agent)
                  after  == RecordedCommand(pump_commands', valve_commands', agent)
                  fb     == IF before # None THEN before
                            ELSE Canonical(ObsGet(Req.observations, "current_status"))
              IN  /\ reply'[1].responses = [k \in {"override_action"} |-> "OFF"]
                  /\ own # None => cmd' = ActionAt(agent.logic.rules, own[1], fb)
                  /\ after = (IF cmd' # None THEN cmd' ELSE before)
                  /\ after # Some("OFF")
        /\ (NoSignalStep /\ Req.plc_id = Some(DemoPlc) /\ DemoPlc \notin DOMAIN overrides')
              => LET before == RecordedCommand(pump_commands, valve_commands, AgentOf(Req))
                 IN  before # None =>
                        (cmd' = before /\ DictGet(pump_commands', "P1") = before)
      ]_vars

\* C27: the pump is reported OFF inside the window, the reply forces OFF, and
\* the command recorded for P1 is OPEN, the action of the rule that fired.
C27_Witness ==
    /\ pc = "replied"
    /\ Req.plc_id = Some(DemoPlc) /\ Req.role = Some("actuator")
    /\ DemoPlc \in DOMAIN overrides
    /\ ObsGet(Req.observations, "current_status") = Some("OFF")
    /\ ObsGet(Req.observations, "level") = Some(0)
    /\ Rep.responses = [k \in {"override_action"} |-> "OFF"]
    /\ DictGet(pump_commands, "P1") = Some("OPEN")

\* the elements the roster and the command maps speak of
AllElements ==
    {plc_config[i].element_id : i \in DOMAIN plc_config}
        \cup DOMAIN pump_commands \cup DOMAIN valve_commands

\* C28: handle_plc_request leaves the command maps as they were for a sensor
\* request; for an actuator request it leaves the cache as it was, the level
\* of the observation included, and changes at most the command of the
\* agent's own element, in the map of its type; a request answered with an
\* error leaves the cache and both maps as they were.
C28_FrameOfHandle ==
    [][ (pc = "pending" /\ pc' = "replied") =>
          /\ (Known(Req) /\ Req.role = Some("sensor"))
                => UNCHANGED <<pump_commands, valve_commands>>
          /\ (Known(Req) /\ Req.role = Some("actuator"))
                => /\ UNCHANGED latest_sensors
                   /\ \A e \in AllElements \cup DOMAIN pump_commands' \cup DOMAIN valve_commands' :
                        (e # AgentOf(Req).element_id)
                            => /\ DictGet(pump_commands', e) = DictGet(pump_commands, e)
                               /\ DictGet(valve_commands', e) = DictGet(valve_commands, e)
                   /\ AgentOf(Req).type # "pump" => UNCHANGED pump_commands
                   /\ AgentOf(Req).type # "valve" => UNCHANGED valve_commands
          /\ "error" \in DOMAIN reply'[1]
                => UNCHANGED <<latest_sensors, pump_commands, valve_commands>>
      ]_vars

\* C28: an actuator request of the pump's agent carried the level 0 and was
\* answered with a command; the cache still holds 2 for T1 and the valve's
\* command is the one it was.
C28_Witness ==
    /\ pc = "replied"
    /\ Req.plc_id = Some("PLC_PUMP_1") /\ Req.role = Some("actuator")
    /\ ObsGet(Req.observations, "level") = Some(0)
    /\ latest_sensors = [n \in {"T1"} |-> 2]
    /\ DictGet(pump_commands, "P1") = Some("OPEN")
    /\ DictGet(valve_commands, "V1") = Some("CLOSED")
    /\ "pump_command" \in DOMAIN Rep.responses

\* the loop hands the coordinator the request of an agent of type pump or
\* valve that has a rule group
GroupStep ==
    /\ loop_pc = "requests"
    /\ pc = "pending" /\ pc' = "replied"
    /\ plc_config[agent_pos].type \in {"pump", "valve"}
    /\ plc_config[agent_pos].logic.rules # <<>>

\* the snapshot with the level of one tank replaced
WithLevel(snapshot, tank, l) ==
    [snapshot EXCEPT !.tanks = [k \in DOMAIN snapshot.tanks |->
                                   IF k = tank THEN l ELSE snapshot.tanks[k]]]

\* C29: the command of an actuator's group is the action of the winning rule
\* when every rule of the group, whatever node it names, is compared with
\* the level of the node of the group's first rule; the level of another
\* node a rule names changes nothing.
C29_OneLevelPerGroup ==
    [][ GroupStep =>
          LET agent    == plc_config[agent_pos]
              snapshot == physical_state[1]
              first    == agent.logic.rules[1].node_id
              before   == RecordedCommand(pump_commands, valve_commands, agent)
              fb       == IF before # None THEN before
                          ELSE Canonical(ObsGet(Req.observations, "current_status"))
          IN  /\ cmd' = ActionAt(agent.logic.rules, snapshot.tanks[first], fb)
              /\ \A other \in DOMAIN snapshot.tanks \ {first} : \A l \in Levels :
                    HandlePlcRequestResult(plc_config, latest_sensors, pump_commands,
                        valve_commands, overrides,
                        BuildRequest(agent, WithLevel(snapshot, other, l))).cmd = cmd'
      ]_vars

\* C29: T1, the node of the first rule, is at 0 and T2, the node of the
\* second rule, is at 2, above that rule's threshold; the pump is commanded
\* OPEN by the first rule and the second has not fired.
C29_Witness ==
    /\ loop_pc = "requests" /\ pc = "replied"
    /\ plc_config[agent_pos] = PlcPumpMixed
    /\ physical_state[1].tanks["T1"] = 0
    /\ physical_state[1].tanks["T2"] = 2
    /\ cmd = Some("OPEN")

\* C30 as stated: in the roster build_runtime_plc_config returns, for every
\* user roster and every rule set, no two agents have the same id.
C30_AgentIdsDistinct ==
    build_pc = "built" =>
        \A i, j \in DOMAIN runtime_plcs :
            i # j => runtime_plcs[i].id # runtime_plcs[j].id

\* the agent of the roster with this id
AgentWithId(id) == plc_config[CHOOSE i \in DOMAIN plc_config : plc_config[i].id = id]

\* the reply an agent's request of this step gets when it is the first of
\* the step to be handled
ReplyWhenFirst(agent) ==
    HandlePlcRequestResult(plc_config, round_start.sensors, round_start.pumps,
                           round_start.valves, round_start.ov,
                           BuildRequest(agent, physical_state[1])).reply

\* the agents served in this step whose request is an actuator's and
\* carries a level
ServedWithLevel ==
    {id \in handled :
        /\ AgentWithId(id).role = "actuator"
        /\ "level" \in DOMAIN BuildRequest(AgentWithId(id), physical_state[1]).observations}

\* C26: in a step, the reply to an actuator request that carries a level is
\* the same in whatever order the coordinator handles the requests of the
\* step: it is the reply the request gets when it is handled first.
C26_ReplyIndependentOfOrder ==
    \A id \in ServedWithLevel : plc_logics[id] = ReplyWhenFirst(AgentWithId(id))

\* C26: in the second step the pump's agent is served after the sensor of
\* T1, whose level has changed since the first step, and is commanded by the
\* level of its own request
C26_Witness ==
    /\ loop_pc = "second"
    /\ {"PLC_PUMP_1", "PLC_SENSOR_T1"} \subseteq handled
    /\ "PLC_V1" \notin handled
    /\ physical_state[1].tanks["T1"] = 0
    /\ round_start.sensors = [n \in {"T1"} |-> 2]
    /\ latest_sensors = [n \in {"T1"} |-> 0]
    /\ round_start.pumps = [e \in {"P1"} |-> "CLOSED"]
    /\ plc_logics["PLC_PUMP_1"].responses = [k \in {"pump_command"} |-> "OPEN"]

=============================================================================
